---- MODULE Spec2Model ----
(***************************************************************************)
(* QuotaValidator: the validation engine (region resolver, the three       *)
(* fiscal-half checks, the overlay run and the LMS run) as a state machine. *)
(*                                                                         *)
(* Strings whose characters the code inspects (identifiers, region hints,  *)
(* the dual-metric flag, period labels, string cell values) are sequences  *)
(* of one-character strings, so that trim / toUpperCase / startsWith /     *)
(* length are computed and not assumed.  Strings the code only compares    *)
(* or looks up whole (country, active status, on-leave, component, plan    *)
(* type) are TLA+ strings; NULL stands for JavaScript null there.          *)
(***************************************************************************)
EXTENDS Integers, Sequences, FiniteSets, TLC

VARIABLES
    allRecords,      \* QuotaRecord[] held by the tab (parseQuotaFile output)
    lmsRecords,      \* LmsQuotaRecord[] held by the LMS tab (parseLmsQuotaFile output)
    refRecords,      \* ReferenceRecord[] held by the tab (parseReferenceFile output)
    selectedMonth,   \* the period label, a character sequence such as J a n - 2 6
    selectedRegion,  \* Region
    pc,              \* "idle" before the operation, "done" after it
    op,              \* which operation produced out
    out,             \* the operation's return value (NoResult before it ran)
    header,          \* the header row handed to detectQuotaColumns
    tab,             \* the mounted component ("none": the engine is called directly)
    submissionMonths, \* the tab's submissionMonths state (the period options offered)
    results,         \* the tab's results state (NoResult is null)
    isRunning,       \* the tab's isRunning state
    error,           \* the tab's error state, a sequence (empty is '')
    timers           \* the deferred callbacks not yet run, each with the values it closed over

vars == <<allRecords, lmsRecords, refRecords, selectedMonth, selectedRegion, pc, op, out,
          header, tab, submissionMonths, results, isRunning, error, timers>>

(***************************************************************************)
(* Bounds of the model.                                                    *)
(***************************************************************************)
MaxRefs == 2

(***************************************************************************)
(* JavaScript values.                                                      *)
(***************************************************************************)
NULL == "<null>"
NullDate == [null |-> TRUE]
NoResult == [none |-> TRUE]

\* JS truthiness of a string | null
Truthy(s) == s # NULL /\ s # ""

LowerOf ==
    [c \in {"A","B","C","D","E","F","G","H","I","J","K","L","M",
            "N","O","P","Q","R","S","T","U","V","W","X","Y","Z"} |->
        CASE c = "A" -> "a" [] c = "B" -> "b" [] c = "C" -> "c" [] c = "D" -> "d"
          [] c = "E" -> "e" [] c = "F" -> "f" [] c = "G" -> "g" [] c = "H" -> "h"
          [] c = "I" -> "i" [] c = "J" -> "j" [] c = "K" -> "k" [] c = "L" -> "l"
          [] c = "M" -> "m" [] c = "N" -> "n" [] c = "O" -> "o" [] c = "P" -> "p"
          [] c = "Q" -> "q" [] c = "R" -> "r" [] c = "S" -> "s" [] c = "T" -> "t"
          [] c = "U" -> "u" [] c = "V" -> "v" [] c = "W" -> "w" [] c = "X" -> "x"
          [] c = "Y" -> "y" [] c = "Z" -> "z"]

UpperOf ==
    [c \in {"a","b","c","d","e","f","g","h","i","j","k","l","m",
            "n","o","p","q","r","s","t","u","v","w","x","y","z"} |->
        CHOOSE u \in DOMAIN LowerOf : LowerOf[u] = c]

\* String.prototype.toLowerCase / toUpperCase / trim / startsWith on character sequences
toLowerCase(s) == [i \in 1..Len(s) |-> IF s[i] \in DOMAIN LowerOf THEN LowerOf[s[i]] ELSE s[i]]
toUpperCase(s) == [i \in 1..Len(s) |-> IF s[i] \in DOMAIN UpperOf THEN UpperOf[s[i]] ELSE s[i]]

WhiteSpace == {" ", "\t", "\n"}

RECURSIVE trimStart(_)
trimStart(s) ==
    IF s # <<>> /\ Head(s) \in WhiteSpace THEN trimStart(Tail(s)) ELSE s

RECURSIVE trimEnd(_)
trimEnd(s) ==
    IF s # <<>> /\ s[Len(s)] \in WhiteSpace THEN trimEnd(SubSeq(s, 1, Len(s) - 1)) ELSE s

trim(s) == trimEnd(trimStart(s))

startsWith(s, p) == Len(s) >= Len(p) /\ SubSeq(s, 1, Len(p)) = p

(***************************************************************************)
(* types.ts: regions and the static lookup tables.                         *)
(***************************************************************************)
REGIONS == {"APAC", "EMEAL", "NAMER"}

COUNTRY_REGION_MAP ==
    [c \in {"Australia", "Austria", "Belgium", "Brazil", "Canada", "China", "France",
            "Germany", "Hong Kong", "India", "Ireland", "Israel", "Italy", "Japan",
            "Malaysia", "Mexico", "Netherlands", "Singapore", "Spain", "Sweden",
            "United Arab Emirates", "United Kingdom", "United States of America"} |->
        IF c \in {"Australia", "China", "Hong Kong", "India", "Japan", "Malaysia",
                  "Singapore"} THEN "APAC"
        ELSE IF c \in {"Canada", "United States of America"} THEN "NAMER"
        ELSE "EMEAL"]

getCountriesForRegion(region) ==
    {c \in DOMAIN COUNTRY_REGION_MAP : COUNTRY_REGION_MAP[c] = region}

\* ISO 2-letter country codes to Region; the keys are two-character sequences
COUNTRY_CODE_REGION_MAP ==
    LET CodesAPAC ==
            {<<"A","U">>, <<"C","N">>, <<"H","K">>, <<"I","N">>, <<"J","P">>, <<"M","Y">>,
             <<"S","G">>, <<"K","R">>, <<"T","W">>, <<"T","H">>, <<"N","Z">>, <<"P","H">>,
             <<"I","D">>, <<"V","N">>}
        CodesNAMER == {<<"C","A">>, <<"U","S">>}
        CodesEMEAL ==
            {<<"A","T">>, <<"B","E">>, <<"B","R">>, <<"F","R">>, <<"D","E">>, <<"I","E">>,
             <<"I","L">>, <<"I","T">>, <<"M","X">>, <<"N","L">>, <<"E","S">>, <<"S","E">>,
             <<"A","E">>, <<"G","B">>, <<"U","K">>, <<"A","R">>, <<"C","L">>, <<"C","O">>,
             <<"P","E">>, <<"Z","A">>, <<"S","A">>, <<"T","R">>, <<"P","L">>, <<"C","Z">>,
             <<"N","O">>, <<"D","K">>, <<"F","I">>, <<"P","T">>, <<"C","H">>, <<"R","O">>,
             <<"H","U">>}
    IN  [k \in CodesAPAC \cup CodesNAMER \cup CodesEMEAL |->
            IF k \in CodesAPAC THEN "APAC" ELSE IF k \in CodesNAMER THEN "NAMER" ELSE "EMEAL"]

\* Market Segment values that directly map to a Region
MARKET_SEGMENT_REGION_MAP ==
    [k \in {<<"A","P","A","C">>, <<"E","M","E","A","L">>, <<"E","M","E","A">>,
            <<"L","A","T","A","M">>, <<"N","A","M","E","R">>} |->
        IF k = <<"A","P","A","C">> THEN "APAC"
        ELSE IF k = <<"N","A","M","E","R">> THEN "NAMER"
        ELSE "EMEAL"]

(***************************************************************************)
(* Shared helpers of the validators.                                       *)
(***************************************************************************)
\* variant: the tbh prefix is compared without lower-casing
isTbhOrBlankCaseSensitive(eid) ==
    \/ eid = <<>>
    \/ eid = <<"-">>
    \/ startsWith(eid, <<"t","b","h">>)

\* !eid || eid === '-' || eid.toLowerCase().startsWith('tbh')
isTbhOrBlank(eid) ==
    \/ eid = <<>>
    \/ eid = <<"-">>
    \/ startsWith(toLowerCase(eid), <<"t","b","h">>)

\* refMap.get(eid) of the Map built from refRecords, in file order;
\* the empty sequence stands for "no entry" (the code tests !refs || refs.length === 0)
refMapGet(refs, eid) == SelectSeq(refs, LAMBDA r : r.eid = eid)

(***************************************************************************)
(* overlayValidators.ts: resolveRegion.                                    *)
(* Returns [included, info |-> [matchType, comment]]; a comment is the     *)
(* sequence of the pieces the template literal concatenates.               *)
(***************************************************************************)
RegionResult(included, matchType, comment) ==
    [included |-> included, info |-> [matchType |-> matchType, comment |-> comment]]

\* refs.find((ref) => ref.country != null && validCountries.has(ref.country))
findMatchingRef(refs, validCountries) ==
    LET hits == {i \in 1..Len(refs) :
                    refs[i].country # NULL /\ refs[i].country \in validCountries}
    IN  IF hits = {} THEN 0 ELSE CHOOSE i \in hits : \A j \in hits : i <= j

\* variant: an unrecognised Market Segment excludes the record
resolveBySegmentStrict(rec, selRegion) ==
    LET segmentUpper == toUpperCase(trim(rec.repRegion))
    IN  IF segmentUpper \in DOMAIN MARKET_SEGMENT_REGION_MAP
        THEN RegionResult(MARKET_SEGMENT_REGION_MAP[segmentUpper] = selRegion,
                          "segment_direct", <<"Market Segment: ", trim(rec.repRegion)>>)
        ELSE IF Len(segmentUpper) = 2 /\ segmentUpper \in DOMAIN COUNTRY_CODE_REGION_MAP
        THEN RegionResult(COUNTRY_CODE_REGION_MAP[segmentUpper] = selRegion,
                          "segment_country_code", <<"Market Segment ", trim(rec.repRegion)>>)
        ELSE RegionResult(FALSE, "unknown", <<"Region unconfirmed">>)

\* steps (2)-(4): the record's own Market Segment string
resolveBySegment(rec, selRegion) ==
    LET marketSegment == trim(rec.repRegion)
        segmentUpper  == toUpperCase(marketSegment)
    IN  IF segmentUpper \in DOMAIN MARKET_SEGMENT_REGION_MAP
        THEN LET directRegion == MARKET_SEGMENT_REGION_MAP[segmentUpper]
             IN  IF directRegion = selRegion
                 THEN RegionResult(TRUE, "segment_direct",
                                   <<"Market Segment: ", marketSegment>>)
                 ELSE RegionResult(FALSE, "segment_direct",
                                   <<"Market Segment ", marketSegment, directRegion,
                                     ", not ", selRegion>>)
        ELSE IF Len(segmentUpper) = 2 /\ segmentUpper \in DOMAIN COUNTRY_CODE_REGION_MAP
        THEN LET codeRegion == COUNTRY_CODE_REGION_MAP[segmentUpper]
             IN  IF codeRegion = selRegion
                 THEN RegionResult(TRUE, "segment_country_code",
                                   <<"Market Segment ", marketSegment, " country code ",
                                     codeRegion>>)
                 ELSE RegionResult(FALSE, "segment_country_code",
                                   <<"Market Segment ", marketSegment, codeRegion,
                                     ", not ", selRegion>>)
        ELSE RegionResult(TRUE, "unknown",
                          <<"Region unconfirmed: EID not in SCR, Market Segment ",
                            marketSegment, " not recognized as a region or country code">>)

\* variant: the Market Segment is consulted before the roster
resolveRegionSegmentFirst(rec, refs, validCountries, selRegion) ==
    LET mine == refMapGet(refs, rec.eid)
        m    == findMatchingRef(mine, validCountries)
        seg  == resolveBySegment(rec, selRegion)
    IN  IF isTbhOrBlank(rec.eid)
        THEN RegionResult(TRUE, "unknown", <<"TBH / Blank EID">>)
        ELSE IF seg.info.matchType # "unknown" THEN seg
        ELSE IF m # 0 THEN RegionResult(TRUE, "scr", <<"SCR: ", mine[m].country>>)
        ELSE seg

\* variant: a roster country of another region does not exclude; the hint decides
resolveRegionNoMismatch(rec, refs, validCountries, selRegion) ==
    LET mine == refMapGet(refs, rec.eid)
        m    == findMatchingRef(mine, validCountries)
    IN  IF isTbhOrBlank(rec.eid)
        THEN RegionResult(TRUE, "unknown", <<"TBH / Blank EID">>)
        ELSE IF m # 0 THEN RegionResult(TRUE, "scr", <<"SCR: ", mine[m].country>>)
        ELSE resolveBySegment(rec, selRegion)

resolveRegion(rec, refs, validCountries, selRegion) ==
    IF isTbhOrBlank(rec.eid)
    THEN RegionResult(TRUE, "unknown", <<"TBH / Blank EID">>)
    ELSE LET mine == refMapGet(refs, rec.eid)
             m    == findMatchingRef(mine, validCountries)
         IN  IF Len(mine) > 0 /\ m # 0
             THEN RegionResult(TRUE, "scr", <<"SCR: ", mine[m].country>>)
             ELSE IF /\ Len(mine) > 0
                     /\ Truthy(mine[1].country)
                     /\ mine[1].country \in DOMAIN COUNTRY_REGION_MAP
                     /\ COUNTRY_REGION_MAP[mine[1].country] # selRegion
             THEN RegionResult(FALSE, "scr",
                               <<"SCR Country ", mine[1].country, " belongs to ",
                                 COUNTRY_REGION_MAP[mine[1].country], ", not ",
                                 selRegion>>)
             ELSE resolveBySegment(rec, selRegion)

(***************************************************************************)
(* excelParser.ts: the period label.                                       *)
(***************************************************************************)
MonthNames ==
    << <<"j","a","n">>, <<"f","e","b">>, <<"m","a","r">>, <<"a","p","r">>,
       <<"m","a","y">>, <<"j","u","n">>, <<"j","u","l">>, <<"a","u","g">>,
       <<"s","e","p">>, <<"o","c","t">>, <<"n","o","v">>, <<"d","e","c">> >>

DigitVal ==
    [c \in {"0","1","2","3","4","5","6","7","8","9"} |->
        CASE c = "0" -> 0 [] c = "1" -> 1 [] c = "2" -> 2 [] c = "3" -> 3 [] c = "4" -> 4
          [] c = "5" -> 5 [] c = "6" -> 6 [] c = "7" -> 7 [] c = "8" -> 8 [] c = "9" -> 9]

\* months of formatSubmissionMonth
MonthLabels ==
    << <<"J","a","n">>, <<"F","e","b">>, <<"M","a","r">>, <<"A","p","r">>,
       <<"M","a","y">>, <<"J","u","n">>, <<"J","u","l">>, <<"A","u","g">>,
       <<"S","e","p">>, <<"O","c","t">>, <<"N","o","v">>, <<"D","e","c">> >>

DigitChar == <<"0", "1", "2", "3", "4", "5", "6", "7", "8", "9">>

\* String(n) for n >= 0
RECURSIVE String(_)
String(n) == IF n < 10 THEN <<DigitChar[n + 1]>>
             ELSE String(n \div 10) \o <<DigitChar[(n % 10) + 1]>>

\* s.slice(-2)
sliceLast2(s) == IF Len(s) <= 2 THEN s ELSE SubSeq(s, Len(s) - 1, Len(s))

formatSubmissionMonth(d) == MonthLabels[d.month] \o <<"-">> \o sliceLast2(String(d.year))

\* label.match(/^(Jan|Feb|...|Dec)-(\d{2})$/i); null is NullDate
parseSubmissionMonthLabel(label) ==
    IF /\ Len(label) = 6
       /\ \E m \in 1..12 : toLowerCase(SubSeq(label, 1, 3)) = MonthNames[m]
       /\ label[4] = "-"
       /\ label[5] \in DOMAIN DigitVal
       /\ label[6] \in DOMAIN DigitVal
    THEN [year  |-> 2000 + 10 * DigitVal[label[5]] + DigitVal[label[6]],
          month |-> CHOOSE m \in 1..12 : toLowerCase(SubSeq(label, 1, 3)) = MonthNames[m]]
    ELSE NullDate

(***************************************************************************)
(* types.ts: fiscal halves; cell values are number | string | null.        *)
(***************************************************************************)
H1_MONTHS == <<"JUL", "AUG", "SEP", "OCT", "NOV", "DEC">>
H2_MONTHS == <<"JAN", "FEB", "MAR", "APR", "MAY", "JUN">>
MONTHS == H1_MONTHS \o H2_MONTHS

NullVal == [t |-> "null"]
Num(n) == [t |-> "num", v |-> n]
Str(s) == [t |-> "str", v |-> s]
NullQuotas == [null |-> TRUE]

\* a test that compares strings without trimming them
isQuotaValueMissingUntrimmed(val) ==
    \/ val = NullVal
    \/ (val.t = "str" /\ (val.v = <<>> \/ val.v = <<"-">>))
    \/ val = Num(0)

isQuotaValueMissing(val) ==
    \/ val = NullVal
    \/ (val.t = "str" /\ (trim(val.v) = <<>> \/ trim(val.v) = <<"-">>))
    \/ val = Num(0)

(***************************************************************************)
(* validators.ts: runValidation.                                           *)
(***************************************************************************)
\* a filter that keeps the records of every submission month
targetRecordsOfAnyPeriod(records, parsed) ==
    SelectSeq(records, LAMBDA rec : rec.submissionMonth # NullDate)

\* allRecords.filter(...): the records of the selected submission month
targetRecordsOf(records, parsed) ==
    SelectSeq(records, LAMBDA rec :
        /\ rec.submissionMonth # NullDate
        /\ rec.submissionMonth.year = parsed.year
        /\ rec.submissionMonth.month = parsed.month)

\* Array.prototype.join on sequences of message pieces
RECURSIVE join(_, _)
join(parts, sep) ==
    IF parts = <<>> THEN <<>>
    ELSE IF Len(parts) = 1 THEN parts[1]
    ELSE parts[1] \o <<sep>> \o join(Tail(parts), sep)

orBlank(s) == IF s = NULL THEN "(blank)" ELSE s

\* the violated conditions of one roster entry, in the order the code pushes them
issuesOf(ref, validCountries, selRegion) ==
    (IF ref.activeStatus # "Yes"
     THEN << <<"Active Status=", orBlank(ref.activeStatus), " (expected Yes)">> >>
     ELSE <<>>)
    \o
    (IF Truthy(ref.onLeave)
     THEN << <<"On Leave=", ref.onLeave, " (expected blank)">> >>
     ELSE <<>>)
    \o
    (IF ~Truthy(ref.country) \/ ref.country \notin validCountries
     THEN << <<"Country=", orBlank(ref.country)>>
             \o (IF Truthy(ref.country) /\ ref.country \in DOMAIN COUNTRY_REGION_MAP
                 THEN <<" (Region: ", COUNTRY_REGION_MAP[ref.country], ")">>
                 ELSE <<>>)
             \o <<" - not in ", selRegion>> >>
     ELSE <<>>)

refInfoOf(ref) ==
    [activeStatus |-> ref.activeStatus, onLeave |-> ref.onLeave, country |-> ref.country]

NoRefInfo == [undefined |-> TRUE]

\* variant: the loop does not stop at the first entry without violations
RECURSIVE refLoopNoBreak(_, _, _, _, _)
refLoopNoBreak(refs, i, st, validCountries, selRegion) ==
    IF i > Len(refs) THEN st
    ELSE LET issues == issuesOf(refs[i], validCountries, selRegion)
         IN  refLoopNoBreak(refs, i + 1,
                            [foundValid |-> st.foundValid \/ Len(issues) = 0,
                             lastIssues |-> IF Len(issues) = 0 THEN st.lastIssues ELSE issues,
                             lastRef    |-> refs[i]],
                            validCountries, selRegion)

\* variant: the violations of the first failing entry are kept
RECURSIVE refLoopKeepFirst(_, _, _, _, _)
refLoopKeepFirst(refs, i, st, validCountries, selRegion) ==
    IF i > Len(refs) THEN st
    ELSE LET issues == issuesOf(refs[i], validCountries, selRegion)
         IN  IF Len(issues) = 0
             THEN [foundValid |-> TRUE, lastIssues |-> st.lastIssues, lastRef |-> refs[i]]
             ELSE refLoopKeepFirst(refs, i + 1,
                                   [foundValid |-> FALSE,
                                    lastIssues |-> IF st.lastIssues = <<>> THEN issues
                                                   ELSE st.lastIssues,
                                    lastRef |-> refs[i]],
                                   validCountries, selRegion)

\* the loop over refs: state [foundValid, lastIssues, lastRef] after entries i..Len(refs)
RECURSIVE refLoop(_, _, _, _, _)
refLoop(refs, i, st, validCountries, selRegion) ==
    IF i > Len(refs) THEN st
    ELSE LET issues == issuesOf(refs[i], validCountries, selRegion)
         IN  IF Len(issues) = 0
             THEN [foundValid |-> TRUE, lastIssues |-> st.lastIssues, lastRef |-> refs[i]]
             ELSE refLoop(refs, i + 1,
                          [foundValid |-> FALSE, lastIssues |-> issues, lastRef |-> refs[i]],
                          validCountries, selRegion)

\* Check 1 of one record: [status, reason, refInfo]
checkEid(eid, refs, validCountries, selRegion) ==
    IF isTbhOrBlank(eid)
    THEN [status |-> "skip", reason |-> <<"TBH / Blank EID">>, refInfo |-> NoRefInfo]
    ELSE LET mine == refMapGet(refs, eid)
         IN  IF Len(mine) = 0
             THEN [status |-> "fail", reason |-> <<"EID not found in reference file">>,
                   refInfo |-> NoRefInfo]
             ELSE LET st == refLoop(mine, 1,
                                    [foundValid |-> FALSE, lastIssues |-> <<>>,
                                     lastRef |-> NoRefInfo],
                                    validCountries, selRegion)
                  IN  IF st.foundValid
                      THEN [status |-> "pass", reason |-> <<>>,
                            refInfo |-> refInfoOf(st.lastRef)]
                      ELSE [status |-> "fail", reason |-> join(st.lastIssues, "; "),
                            refInfo |-> refInfoOf(st.lastRef)]

v1ResultsOf(records, refs, validCountries, selRegion) ==
    [i \in 1..Len(records) |->
        LET c == checkEid(records[i].eid, refs, validCountries, selRegion)
        IN  [record |-> records[i], status |-> c.status, reason |-> c.reason,
             refInfo |-> c.refInfo]]

\* Check 2: eidMap keys in insertion order (first occurrence of each non-placeholder eid)
RECURSIVE eidKeys(_, _)
eidKeys(records, seen) ==
    IF records = <<>> THEN seen
    ELSE LET e == Head(records).eid
         IN  IF isTbhOrBlank(e) \/ (\E k \in 1..Len(seen) : seen[k] = e)
             THEN eidKeys(Tail(records), seen)
             ELSE eidKeys(Tail(records), Append(seen, e))

eidMapGet(records, eid) ==
    SelectSeq(records, LAMBDA rec : ~isTbhOrBlank(rec.eid) /\ rec.eid = eid)

v2ResultsOf(records) ==
    LET keys   == eidKeys(records, <<>>)
        groups == [k \in 1..Len(keys) |->
                      [eid |-> keys[k], occurrences |-> eidMapGet(records, keys[k])]]
    IN  SelectSeq(groups, LAMBDA g : Len(g.occurrences) > 1)

\* a half that begins after July
isH1AfterJuly(parsed) == parsed.month > 7

\* Check 3: the half of the selected period
isH1(parsed) == parsed.month >= 7
halfMonthKeys(parsed) == IF isH1(parsed) THEN H1_MONTHS ELSE H2_MONTHS
halfStartCalMonth(parsed) == IF isH1(parsed) THEN 7 ELSE 1
halfEndCalMonth(parsed) == IF isH1(parsed) THEN 12 ELSE 6

\* a skip that also drops a quota starting in the last month of the half
v3SkipsFromHalfEnd(rec, parsed) ==
    \/ rec.quotaStartDate = NullDate
    \/ rec.quotaStartDate.year > parsed.year
    \/ /\ rec.quotaStartDate.year = parsed.year
       /\ rec.quotaStartDate.month >= halfEndCalMonth(parsed)

\* !qs, or the quota starts after the end of this half
v3Skips(rec, parsed) ==
    \/ rec.quotaStartDate = NullDate
    \/ rec.quotaStartDate.year > parsed.year
    \/ /\ rec.quotaStartDate.year = parsed.year
       /\ rec.quotaStartDate.month > halfEndCalMonth(parsed)

\* the later of the half's first month and the start month, whatever the start year
effectiveStartCalMonthMax(rec, parsed) ==
    IF rec.quotaStartDate.month < halfStartCalMonth(parsed)
    THEN halfStartCalMonth(parsed)
    ELSE rec.quotaStartDate.month

effectiveStartCalMonth(rec, parsed) ==
    IF \/ rec.quotaStartDate.year < parsed.year
       \/ /\ rec.quotaStartDate.year = parsed.year
          /\ rec.quotaStartDate.month < halfStartCalMonth(parsed)
    THEN halfStartCalMonth(parsed)
    ELSE rec.quotaStartDate.month

\* every record treated as dual-metric
isDMCAlways(rec) == TRUE

isDMC(rec) == toUpperCase(rec.dualMetric) = <<"D","M","C">>

\* the value snapshot of one bucket over the half (null for an unchecked bucket)
snapshotOf(has, bucket, parsed) ==
    [key \in {halfMonthKeys(parsed)[i] : i \in 1..6} |->
        IF has THEN bucket[key] ELSE NullVal]

\* a month loop that starts checking after the effective start month
RECURSIVE missingOfStrictlyAfter(_, _, _, _, _)
missingOfStrictlyAfter(has, snapshot, parsed, effective, i) ==
    IF i >= Len(halfMonthKeys(parsed)) THEN <<>>
    ELSE LET key      == halfMonthKeys(parsed)[i + 1]
             calMonth == halfStartCalMonth(parsed) + i
         IN  (IF calMonth > effective /\ has /\ isQuotaValueMissing(snapshot[key])
              THEN <<key>> ELSE <<>>)
             \o missingOfStrictlyAfter(has, snapshot, parsed, effective, i + 1)

\* the keys pushed for one bucket by the loop i = 0..5
RECURSIVE missingOf(_, _, _, _, _)
missingOf(has, snapshot, parsed, effective, i) ==
    IF i >= Len(halfMonthKeys(parsed)) THEN <<>>
    ELSE LET key      == halfMonthKeys(parsed)[i + 1]
             calMonth == halfStartCalMonth(parsed) + i
         IN  (IF calMonth >= effective /\ has /\ isQuotaValueMissing(snapshot[key])
              THEN <<key>> ELSE <<>>)
             \o missingOf(has, snapshot, parsed, effective, i + 1)

v3Evaluate(rec, parsed) ==
    LET effective    == effectiveStartCalMonth(rec, parsed)
        hasY2Y3      == rec.monthlyQuotasY2Y3 # NullQuotas
        hasComp2     == isDMC(rec) /\ rec.monthlyQuotasComp2 # NullQuotas
        hasComp2Y2Y3 == isDMC(rec) /\ rec.monthlyQuotasComp2Y2Y3 # NullQuotas
        quotaValues          == snapshotOf(TRUE, rec.monthlyQuotas, parsed)
        quotaValuesY2Y3      == snapshotOf(hasY2Y3, rec.monthlyQuotasY2Y3, parsed)
        quotaValuesComp2     == snapshotOf(hasComp2, rec.monthlyQuotasComp2, parsed)
        quotaValuesComp2Y2Y3 == snapshotOf(hasComp2Y2Y3, rec.monthlyQuotasComp2Y2Y3, parsed)
    IN  [record |-> rec,
         half |-> IF isH1(parsed) THEN "H1" ELSE "H2",
         missingMonths |-> missingOf(TRUE, quotaValues, parsed, effective, 0),
         quotaValues |-> quotaValues,
         missingMonthsY2Y3 |-> missingOf(hasY2Y3, quotaValuesY2Y3, parsed, effective, 0),
         quotaValuesY2Y3 |-> quotaValuesY2Y3,
         hasY2Y3 |-> hasY2Y3,
         missingMonthsComp2 |-> missingOf(hasComp2, quotaValuesComp2, parsed, effective, 0),
         quotaValuesComp2 |-> quotaValuesComp2,
         missingMonthsComp2Y2Y3 |->
             missingOf(hasComp2Y2Y3, quotaValuesComp2Y2Y3, parsed, effective, 0),
         quotaValuesComp2Y2Y3 |-> quotaValuesComp2Y2Y3,
         hasComp2 |-> hasComp2,
         hasComp2Y2Y3 |-> hasComp2Y2Y3]

\* only the primary/Y1 list decides
hasMissingPrimaryOnly(r) == Len(r.missingMonths) > 0

hasMissing(r) ==
    \/ Len(r.missingMonths) > 0
    \/ Len(r.missingMonthsY2Y3) > 0
    \/ Len(r.missingMonthsComp2) > 0
    \/ Len(r.missingMonthsComp2Y2Y3) > 0

RECURSIVE v3ResultsOf(_, _)
v3ResultsOf(records, parsed) ==
    IF records = <<>> THEN <<>>
    ELSE IF v3Skips(Head(records), parsed) THEN v3ResultsOf(Tail(records), parsed)
    ELSE LET r == v3Evaluate(Head(records), parsed)
         IN  (IF hasMissing(r) THEN <<r>> ELSE <<>>) \o v3ResultsOf(Tail(records), parsed)


\* a count that takes equal statuses for one
countStatusOnce(v1, status) == Cardinality({v1[i].status : i \in 1..Len(v1)} \cap {status})
countStatus(v1, status) == Cardinality({i \in 1..Len(v1) : v1[i].status = status})

summaryOf(v1, v2, v3, total) ==
    [v1Pass |-> countStatus(v1, "pass"),
     v1Fail |-> countStatus(v1, "fail"),
     v1Skip |-> countStatus(v1, "skip"),
     v2DuplicateEids |-> Len(v2),
     v3MissingQuota |-> Len(v3),
     totalRecords |-> total]

InvalidMonth(label) == [error |-> <<"Invalid submission month: ", label>>]

runValidation(records, refs, label, selRegion) ==
    LET parsed == parseSubmissionMonthLabel(label)
    IN  IF parsed = NullDate THEN InvalidMonth(label)
        ELSE LET targetRecords  == targetRecordsOf(records, parsed)
                 validCountries == getCountriesForRegion(selRegion)
                 v1 == v1ResultsOf(targetRecords, refs, validCountries, selRegion)
                 v2 == v2ResultsOf(targetRecords)
                 v3 == v3ResultsOf(targetRecords, parsed)
             IN  [v1 |-> v1, v2 |-> v2, v3 |-> v3,
                  summary |-> summaryOf(v1, v2, v3, Len(targetRecords))]

(***************************************************************************)
(* overlayValidators.ts: runOverlayValidation.                             *)
(***************************************************************************)

\* the filter that keeps every record of the period, whatever resolveRegion says
filteredRecordsAll(targetRecords, refs, validCountries, selRegion) == targetRecords
\* the records of targetRecords that resolveRegion includes, in order
filteredRecordsOf(targetRecords, refs, validCountries, selRegion) ==
    SelectSeq(targetRecords, LAMBDA rec :
        resolveRegion(rec, refs, validCountries, selRegion).included)

\* regionInfoCache.get(rec)
regionInfoOf(rec, refs, validCountries, selRegion) ==
    resolveRegion(rec, refs, validCountries, selRegion).info

overlayV1ResultsOf(records, refs, validCountries, selRegion) ==
    [i \in 1..Len(records) |->
        LET c == checkEid(records[i].eid, refs, validCountries, selRegion)
        IN  [record |-> records[i], status |-> c.status, reason |-> c.reason,
             refInfo |-> c.refInfo,
             regionInfo |-> regionInfoOf(records[i], refs, validCountries, selRegion)]]

overlayV2ResultsOf(records, refs, validCountries, selRegion) ==
    LET v2 == v2ResultsOf(records)
    IN  [k \in 1..Len(v2) |->
            [eid |-> v2[k].eid,
             occurrences |-> v2[k].occurrences,
             regionInfoMap |->
                 [key \in {<<v2[k].occurrences[j].sheet, v2[k].occurrences[j].row>> :
                               j \in 1..Len(v2[k].occurrences)} |->
                     LET j == CHOOSE j \in 1..Len(v2[k].occurrences) :
                                  /\ <<v2[k].occurrences[j].sheet,
                                       v2[k].occurrences[j].row>> = key
                                  /\ \A l \in 1..Len(v2[k].occurrences) :
                                        <<v2[k].occurrences[l].sheet,
                                          v2[k].occurrences[l].row>> = key => l <= j
                     IN  regionInfoOf(v2[k].occurrences[j], refs, validCountries,
                                      selRegion)]]]

overlayV3ResultsOf(records, parsed, refs, validCountries, selRegion) ==
    LET v3 == v3ResultsOf(records, parsed)
    IN  [k \in 1..Len(v3) |->
            [f \in DOMAIN v3[k] \cup {"regionInfo"} |->
                IF f = "regionInfo"
                THEN regionInfoOf(v3[k].record, refs, validCountries, selRegion)
                ELSE v3[k][f]]]

runOverlayValidation(records, refs, label, selRegion) ==
    LET parsed == parseSubmissionMonthLabel(label)
    IN  IF parsed = NullDate THEN InvalidMonth(label)
        ELSE LET targetRecords   == targetRecordsOf(records, parsed)
                 validCountries  == getCountriesForRegion(selRegion)
                 filteredRecords == filteredRecordsOf(targetRecords, refs, validCountries,
                                                      selRegion)
                 v1 == overlayV1ResultsOf(filteredRecords, refs, validCountries, selRegion)
                 v2 == overlayV2ResultsOf(filteredRecords, refs, validCountries, selRegion)
                 v3 == overlayV3ResultsOf(filteredRecords, parsed, refs, validCountries,
                                          selRegion)
             IN  [v1 |-> v1, v2 |-> v2, v3 |-> v3,
                  summary |-> summaryOf(v1, v2, v3, Len(filteredRecords))]

(***************************************************************************)
(* lmsValidators.ts: runLmsValidation.                                     *)
(***************************************************************************)
LMS_MONTHS == <<"JAN", "FEB", "MAR", "APR", "MAY", "JUN">>
LMS_MONTH_TO_CAL == [m \in {"JAN", "FEB", "MAR", "APR", "MAY", "JUN"} |->
                        CHOOSE i \in 1..6 : LMS_MONTHS[i] = m]
\* the month keys as the characters a label is compared with
LmsMonthChars ==
    [m \in {"JAN", "FEB", "MAR", "APR", "MAY", "JUN"} |->
        toUpperCase(MonthNames[LMS_MONTH_TO_CAL[m]])]

\* parseFloat on [ws] [+|-] digits [. digits] <anything>, in thousandths;
\* NaN when no digit follows the sign.  Exponents and "Infinity" are not in the inputs.
RECURSIVE digitsValue(_, _)
digitsValue(s, acc) ==
    IF s # <<>> /\ Head(s) \in DOMAIN DigitVal
    THEN digitsValue(Tail(s), 10 * acc + DigitVal[Head(s)])
    ELSE acc

RECURSIVE dropDigits(_)
dropDigits(s) == IF s # <<>> /\ Head(s) \in DOMAIN DigitVal THEN dropDigits(Tail(s)) ELSE s

\* a parseFloat result: NaN, or a number n in thousandths
NaN == [nan |-> TRUE, v |-> 0]
Number(n) == [nan |-> FALSE, v |-> n]
isNaN(x) == x.nan

RECURSIVE fractionValue(_, _)
fractionValue(s, scale) ==
    IF s # <<>> /\ Head(s) \in DOMAIN DigitVal /\ scale > 0
    THEN DigitVal[Head(s)] * scale + fractionValue(Tail(s), scale \div 10)
    ELSE 0

parseFloat(str) ==
    LET s0   == trimStart(str)
        neg  == s0 # <<>> /\ Head(s0) = "-"
        s1   == IF s0 # <<>> /\ Head(s0) \in {"+", "-"} THEN Tail(s0) ELSE s0
        rest == dropDigits(s1)
        hasInt  == s1 # <<>> /\ Head(s1) \in DOMAIN DigitVal
        hasFrac == /\ Len(rest) >= 2 /\ rest[1] = "." /\ rest[2] \in DOMAIN DigitVal
        mag  == 1000 * digitsValue(s1, 0)
                + (IF hasFrac THEN fractionValue(Tail(rest), 100) ELSE 0)
    IN  IF ~hasInt /\ ~hasFrac THEN NaN
        ELSE IF neg THEN Number(0 - mag) ELSE Number(mag)

\* in thousandths
numericValue(val) ==
    IF val = NullVal THEN 0
    ELSE IF val.t = "num" THEN 1000 * val.v
    ELSE LET n == parseFloat(val.v) IN IF isNaN(n) THEN 0 ELSE n.v

hasPositiveAmount(val) == numericValue(val) > 0

\* a policy that treats an OKR plan like a semi-annual one
getExpectedActiveMonthsOkrAsSemi(effectiveMonth, planType) ==
    [i \in 1..Len(LMS_MONTHS) |->
        LET m        == LMS_MONTHS[i]
            calMonth == LMS_MONTH_TO_CAL[m]
            pt       == toLowerCase(planType)
        IN  [month |-> m,
             shouldHaveAmount |->
                IF calMonth < effectiveMonth THEN FALSE
                ELSE IF pt = <<"q","t","r","l","y">>
                THEN calMonth <= (IF effectiveMonth <= 3 THEN 3 ELSE 6)
                ELSE TRUE]]

\* a policy that treats a quarterly plan like a semi-annual one
getExpectedActiveMonthsNoQuarter(effectiveMonth, planType) ==
    [i \in 1..Len(LMS_MONTHS) |->
        LET m        == LMS_MONTHS[i]
            calMonth == LMS_MONTH_TO_CAL[m]
            pt       == toLowerCase(planType)
        IN  [month |-> m,
             shouldHaveAmount |->
                IF calMonth < effectiveMonth THEN FALSE
                ELSE IF pt = <<"o","k","r">> THEN FALSE
                ELSE TRUE]]

\* one entry per LMS month, in order: [month, shouldHaveAmount]
getExpectedActiveMonths(effectiveMonth, planType) ==
    [i \in 1..Len(LMS_MONTHS) |->
        LET m        == LMS_MONTHS[i]
            calMonth == LMS_MONTH_TO_CAL[m]
            pt       == toLowerCase(planType)
        IN  [month |-> m,
             shouldHaveAmount |->
                IF calMonth < effectiveMonth THEN FALSE
                ELSE IF pt = <<"o","k","r">> THEN FALSE
                ELSE IF pt = <<"s","e","m","i">> THEN TRUE
                ELSE IF pt = <<"q","t","r","l","y">>
                THEN calMonth <= (IF effectiveMonth <= 3 THEN 3 ELSE 6)
                ELSE TRUE]]

GEO_TO_REGION ==
    [g \in {<<"A","P","A","C">>, <<"E","M","E","A">>, <<"L","A","T","A","M">>,
            <<"N","A","M","E","R">>} |->
        IF g = <<"A","P","A","C">> THEN "APAC"
        ELSE IF g = <<"N","A","M","E","R">> THEN "NAMER"
        ELSE "EMEAL"]


\* the filter without the Geo fallback: an identifier absent from the roster is dropped
lmsFilteredRecordsNoGeo(records, refs, validCountries, selRegion) ==
    SelectSeq(records, LAMBDA rec :
        IF isTbhOrBlank(rec.employeeId) THEN TRUE
        ELSE LET mine == refMapGet(refs, rec.employeeId)
             IN  \E i \in 1..Len(mine) :
                    mine[i].country # NULL /\ mine[i].country \in validCountries)
lmsFilteredRecordsOf(records, refs, validCountries, selRegion) ==
    SelectSeq(records, LAMBDA rec :
        IF isTbhOrBlank(rec.employeeId) THEN TRUE
        ELSE LET mine == refMapGet(refs, rec.employeeId)
                 geo  == toUpperCase(rec.geo)
             IN  IF Len(mine) = 0
                 THEN IF geo = <<"S","A">> THEN TRUE
                      ELSE geo \in DOMAIN GEO_TO_REGION /\ GEO_TO_REGION[geo] = selRegion
                 ELSE \E i \in 1..Len(mine) :
                         mine[i].country # NULL /\ mine[i].country \in validCountries)

lmsV1ResultsOf(records, refs, validCountries, selRegion) ==
    [i \in 1..Len(records) |->
        LET c == checkEid(records[i].employeeId, refs, validCountries, selRegion)
        IN  [record |-> records[i], status |-> c.status, reason |-> c.reason,
             refInfo |-> c.refInfo]]

checkRev1(component) == component \in {"Non-SA", "Rev 1 Only", "Rev 1 & Rev 2"}
checkRev2(component) == component \in {"Rev 2 Only", "Rev 1 & Rev 2"}

lmsIssue(stream, month, issueType, expected, actual) ==
    [column |-> <<stream, month>>, month |-> month, issueType |-> issueType,
     expectedBehavior |-> expected, actualValue |-> actual]

\* the issues one stream check pushes for one month (at most one)
streamIssues(stream, val, e, planType, effectiveMonth) ==
    LET isOkr == toLowerCase(planType) = <<"o","k","r">>
    IN  (IF e.shouldHaveAmount /\ ~hasPositiveAmount(val)
         THEN <<lmsIssue(stream, e.month, "missing_amount",
                         <<"Expected amount > 0 (", planType, ", effective from ",
                           LMS_MONTHS[effectiveMonth], ")">>, val)>>
         ELSE <<>>)
        \o
        (IF ~e.shouldHaveAmount /\ hasPositiveAmount(val)
         THEN <<lmsIssue(stream, e.month,
                         IF isOkr THEN "okr_has_amount" ELSE "should_be_zero",
                         IF isOkr THEN <<"OKR plan type should have 0 quota">>
                         ELSE <<"Month before effective date or after quarter end should be 0">>,
                         val)>>
         ELSE <<>>)

\* a loop body that looks at the Rev 1 columns of a Rev 2 Only record only in the
\* months that expect an amount
monthIssuesActiveOnly(rec, e, effectiveMonth) ==
    (IF checkRev1(rec.component)
     THEN streamIssues("Rev1-", rec.rev1Monthly[e.month], e, rec.planType, effectiveMonth)
     ELSE <<>>)
    \o
    (IF checkRev2(rec.component)
     THEN streamIssues("Rev2-", rec.rev2Monthly[e.month], e, rec.planType, effectiveMonth)
     ELSE <<>>)
    \o
    (IF /\ rec.component = "Rev 2 Only" /\ e.shouldHaveAmount
        /\ hasPositiveAmount(rec.rev1Monthly[e.month])
     THEN <<lmsIssue("Rev1-", e.month, "rev2_only_has_rev1",
                     <<"Rev 2 Only component should not have Rev 1 amounts (blank or 0 expected)">>,
                     rec.rev1Monthly[e.month])>>
     ELSE <<>>)

\* the issues pushed for one expected month, in the order of the loop body
monthIssues(rec, e, effectiveMonth) ==
    (IF checkRev1(rec.component)
     THEN streamIssues("Rev1-", rec.rev1Monthly[e.month], e, rec.planType, effectiveMonth)
     ELSE <<>>)
    \o
    (IF checkRev2(rec.component)
     THEN streamIssues("Rev2-", rec.rev2Monthly[e.month], e, rec.planType, effectiveMonth)
     ELSE <<>>)
    \o
    (IF rec.component = "Rev 2 Only" /\ hasPositiveAmount(rec.rev1Monthly[e.month])
     THEN <<lmsIssue("Rev1-", e.month, "rev2_only_has_rev1",
                     <<"Rev 2 Only component should not have Rev 1 amounts (blank or 0 expected)">>,
                     rec.rev1Monthly[e.month])>>
     ELSE <<>>)

RECURSIVE allMonthIssues(_, _, _, _)
allMonthIssues(rec, expected, effectiveMonth, i) ==
    IF i > Len(expected) THEN <<>>
    ELSE monthIssues(rec, expected[i], effectiveMonth)
         \o allMonthIssues(rec, expected, effectiveMonth, i + 1)

\* the comparator of issues.sort: Rev1 before Rev2, then month order
issueBefore(a, b) ==
    LET aIsRev1 == IF a.column[1] = "Rev1-" THEN 0 ELSE 1
        bIsRev1 == IF b.column[1] = "Rev1-" THEN 0 ELSE 1
    IN  IF aIsRev1 # bIsRev1 THEN aIsRev1 < bIsRev1
        ELSE LMS_MONTH_TO_CAL[a.month] < LMS_MONTH_TO_CAL[b.month]

\* Array.prototype.sort is stable: insert each issue after the last one not after it
RECURSIVE insertIssue(_, _)
insertIssue(sorted, x) ==
    IF sorted = <<>> THEN <<x>>
    ELSE IF issueBefore(x, Head(sorted)) THEN <<x>> \o sorted
    ELSE <<Head(sorted)>> \o insertIssue(Tail(sorted), x)

\* the issues left in the order the loop pushed them
sortIssuesUnsorted(issues, acc) == acc \o issues

RECURSIVE sortIssues(_, _)
sortIssues(issues, acc) ==
    IF issues = <<>> THEN acc
    ELSE sortIssues(Tail(issues), insertIssue(acc, Head(issues)))

lmsV2Skips(rec) ==
    \/ isTbhOrBlank(rec.employeeId)
    \/ rec.quotaEffectiveDate = NullDate
    \/ rec.quotaEffectiveDate.month > 6

\* Math.max(1, effectiveCalMonth)
lmsEffectiveMonth(rec) ==
    IF rec.quotaEffectiveDate.month > 1 THEN rec.quotaEffectiveDate.month ELSE 1

RECURSIVE lmsV2ResultsOf(_)
lmsV2ResultsOf(records) ==
    IF records = <<>> THEN <<>>
    ELSE IF lmsV2Skips(Head(records)) THEN lmsV2ResultsOf(Tail(records))
    ELSE LET rec    == Head(records)
             eff    == lmsEffectiveMonth(rec)
             issues == allMonthIssues(rec, getExpectedActiveMonths(eff, rec.planType),
                                      eff, 1)
         IN  (IF Len(issues) > 0
              THEN <<[record |-> rec, issues |-> sortIssues(issues, <<>>)]>>
              ELSE <<>>)
             \o lmsV2ResultsOf(Tail(records))

\* selectedProcessingMonth.split('-')[0].toUpperCase()
RECURSIVE beforeDash(_)
beforeDash(s) ==
    IF s = <<>> \/ Head(s) = "-" THEN <<>> ELSE <<Head(s)>> \o beforeDash(Tail(s))

processingMonthKeyOf(label) == toUpperCase(beforeDash(label))

\* a lookup that takes any entry with a non-blank on-leave value
findOnLeaveRefAnyValue(refs) ==
    LET hits == {i \in 1..Len(refs) : refs[i].activeStatus = "Yes" /\ Truthy(refs[i].onLeave)}
    IN  IF hits = {} THEN 0 ELSE CHOOSE i \in hits : \A j \in hits : i <= j

\* refs.find((ref) => ref.activeStatus === 'Yes' && ref.onLeave === 'Yes')
findOnLeaveRef(refs) ==
    LET hits == {i \in 1..Len(refs) : refs[i].activeStatus = "Yes" /\ refs[i].onLeave = "Yes"}
    IN  IF hits = {} THEN 0 ELSE CHOOSE i \in hits : \A j \in hits : i <= j

RECURSIVE lmsV3ResultsOf(_, _, _)
lmsV3ResultsOf(records, refs, key) ==
    IF records = <<>> THEN <<>>
    ELSE LET rec  == Head(records)
             mine == refMapGet(refs, rec.employeeId)
             l    == findOnLeaveRef(mine)
         IN  (IF \/ isTbhOrBlank(rec.employeeId)
                 \/ Len(mine) = 0
                 \/ l = 0
                 \/ ~(\E m \in DOMAIN LmsMonthChars : LmsMonthChars[m] = key)
              THEN <<>>
              ELSE LET m    == CHOOSE m \in DOMAIN LmsMonthChars : LmsMonthChars[m] = key
                       cols ==
                           (IF checkRev1(rec.component) /\ hasPositiveAmount(rec.rev1Monthly[m])
                            THEN <<[column |-> <<"Rev1-", m>>, value |-> rec.rev1Monthly[m]]>>
                            ELSE <<>>)
                           \o
                           (IF checkRev2(rec.component) /\ hasPositiveAmount(rec.rev2Monthly[m])
                            THEN <<[column |-> <<"Rev2-", m>>, value |-> rec.rev2Monthly[m]]>>
                            ELSE <<>>)
                   IN  IF Len(cols) > 0
                       THEN <<[record |-> rec, refInfo |-> refInfoOf(mine[l]),
                               processingMonth |-> m, quotaColumnsWithValues |-> cols]>>
                       ELSE <<>>)
             \o lmsV3ResultsOf(Tail(records), refs, key)

runLmsValidation(records, refs, label, selRegion) ==
    LET validCountries  == getCountriesForRegion(selRegion)
        filteredRecords == lmsFilteredRecordsOf(records, refs, validCountries, selRegion)
        v1 == lmsV1ResultsOf(filteredRecords, refs, validCountries, selRegion)
        v2 == lmsV2ResultsOf(filteredRecords)
        v3 == lmsV3ResultsOf(filteredRecords, refs, processingMonthKeyOf(label))
    IN  [v1 |-> v1, v2 |-> v2, v3 |-> v3,
         summary |-> [v1Pass |-> countStatus(v1, "pass"),
                      v1Fail |-> countStatus(v1, "fail"),
                      v1Skip |-> countStatus(v1, "skip"),
                      v2AlignmentIssues |-> Len(v2),
                      v3OnLeaveWithQuota |-> Len(v3),
                      totalRecords |-> Len(filteredRecords)]]

(***************************************************************************)
(* Inputs.  A QuotaRecord keeps the fields the validators read (name and   *)
(* level are only carried to the exports); a ReferenceRecord likewise      *)
(* (fullName and jobTitle are never read).                                 *)
(***************************************************************************)
\* the validators called directly: no header row, no component mounted
EngineOnly ==
    /\ header = <<>>
    /\ tab = "none"
    /\ submissionMonths = <<>>
    /\ results = NoResult
    /\ isRunning = FALSE
    /\ error = <<>>
    /\ timers = <<>>

tabVars == <<tab, submissionMonths, results, isRunning, error, timers>>

E1 == <<"E","1">>
E2 == <<"E","2">>
LabelJan26 == <<"J","a","n","-","2","6">>
FullQuotas == [m \in {MONTHS[i] : i \in 1..12} |-> Num(100)]

QuotaRec(row, eid, hint, qs, sm, y1) ==
    [sheet |-> "IC Quota", row |-> row, eid |-> eid, repRegion |-> hint,
     dualMetric |-> <<"S","M","C">>, quotaStartDate |-> qs, submissionMonth |-> sm,
     monthlyQuotas |-> y1, monthlyQuotasY2Y3 |-> NullQuotas,
     monthlyQuotasComp2 |-> NullQuotas, monthlyQuotasComp2Y2Y3 |-> NullQuotas]

RefRec(eid, activeStatus, onLeave, country) ==
    [eid |-> eid, activeStatus |-> activeStatus, onLeave |-> onLeave, country |-> country]

\* all sequences over S of length 0..n
SeqsUpTo(S, n) == UNION {[1..k -> S] : k \in 0..n}

Inputs == <<allRecords, lmsRecords, refRecords, selectedMonth, selectedRegion>>

(***************************************************************************)
(* SpecRegion: resolveRegion applied to one record and a roster.           *)
(***************************************************************************)

InitRegion ==
    LET RegionEids == {E1, <<"T","b","h","7">>}
        RegionHints ==
            {<<"A","P","A","C">>, <<"a","p","a","c">>, <<"E","M","E","A">>,
             <<"N","A","M","E","R">>, <<"J","P">>, <<"j","p">>, <<"u","s">>, <<"D","E">>,
             <<"X","X">>, <<"S","M","B">>, <<>>}
        RegionCountries == {NULL, "Japan", "Germany", "Canada", "Korea"}
        RegionRoster == {RefRec(e, "Yes", NULL, c) : e \in {E1, E2}, c \in RegionCountries}
    IN  /\ allRecords \in
              {<<QuotaRec(7, e, h, [year |-> 2026, month |-> 1],
                          [year |-> 2026, month |-> 1], FullQuotas)>> :
                  e \in RegionEids, h \in RegionHints}
        /\ lmsRecords = <<>>
        /\ refRecords \in SeqsUpTo(RegionRoster, MaxRefs)
        /\ selectedMonth = LabelJan26
        /\ selectedRegion \in REGIONS
        /\ pc = "idle"
        /\ op = "none"
        /\ out = NoResult
        /\ EngineOnly

\* runOverlayValidation's call of resolveRegion on one target record
ResolveRegion ==
    /\ pc = "idle"
    /\ Len(allRecords) > 0 /\ Len(refRecords) > 0 /\ Len(selectedMonth) > 0
    /\ \E i \in 1..Len(allRecords) :
          out' = [rec |-> allRecords[i],
                  res |-> resolveRegion(allRecords[i], refRecords,
                                        getCountriesForRegion(selectedRegion),
                                        selectedRegion)]
    /\ op' = "resolveRegion"
    /\ pc' = "done"
    /\ UNCHANGED <<Inputs, header, tabVars>>

SpecRegion == InitRegion /\ [][ResolveRegion]_vars

(***************************************************************************)
(* Claims about resolveRegion (SpecRegion).                                *)
(***************************************************************************)
Resolved == pc = "done" /\ op = "resolveRegion"

\* a placeholder identifier: empty, "-", or starting with tbh in any letter case
IsPlaceholderId(eid) ==
    \/ Len(eid) = 0
    \/ (Len(eid) = 1 /\ eid[1] = "-")
    \/ (Len(eid) >= 3 /\ eid[1] \in {"t", "T"} /\ eid[2] \in {"b", "B"}
                      /\ eid[3] \in {"h", "H"})

\* the roster entries of the resolved record, in roster order
RosterIdx(eid) == {i \in 1..Len(refRecords) : refRecords[i].eid = eid}
FirstIdx(S) == CHOOSE i \in S : \A j \in S : i <= j
InRegion(country, region) ==
    country \in DOMAIN COUNTRY_REGION_MAP /\ COUNTRY_REGION_MAP[country] = region
RosterMatches(eid) ==
    \E i \in RosterIdx(eid) : InRegion(refRecords[i].country, selectedRegion)
HintTags == {"segment_direct", "segment_country_code", "unknown"}

\* the region the hint h stands for in the two hint tables, "none" when in neither
HintRegion(h) ==
    IF h \in DOMAIN MARKET_SEGMENT_REGION_MAP THEN MARKET_SEGMENT_REGION_MAP[h]
    ELSE IF Len(h) = 2 /\ h \in DOMAIN COUNTRY_CODE_REGION_MAP
    THEN COUNTRY_CODE_REGION_MAP[h]
    ELSE "none"

\* C1: a non-placeholder record with at least one roster entry whose country is in the
\* selected region is included with match type 'scr', whatever its region hint is.
ThmC1_RosterMatchWins ==
    (Resolved /\ ~IsPlaceholderId(out.rec.eid) /\ RosterMatches(out.rec.eid))
        => (out.res.included /\ out.res.info.matchType = "scr")

\* C1 witness: the roster matches while the hint names another region.
WitC1_HintOfOtherRegion ==
    /\ Resolved
    /\ ~IsPlaceholderId(out.rec.eid)
    /\ RosterMatches(out.rec.eid)
    /\ HintRegion(toUpperCase(out.rec.repRegion)) \in REGIONS \ {selectedRegion}
    /\ out.res.included
    /\ out.res.info.matchType = "scr"

\* C2: when a non-placeholder record has roster entries, none in the selected region,
\* and the first entry's country is in the country table (so of another region), the
\* record is excluded with match type 'scr' whatever the hint is; a hint tag appears
\* only when the first entry's country is blank or not in the country table.
ThmC2_RosterMismatchExcludes ==
    (Resolved /\ ~IsPlaceholderId(out.rec.eid) /\ RosterIdx(out.rec.eid) # {}
              /\ ~RosterMatches(out.rec.eid))
        => LET first == refRecords[FirstIdx(RosterIdx(out.rec.eid))].country
           IN  /\ first \in DOMAIN COUNTRY_REGION_MAP
                    => (~out.res.included /\ out.res.info.matchType = "scr")
               /\ out.res.info.matchType \in HintTags
                    => (first = NULL \/ first \notin DOMAIN COUNTRY_REGION_MAP)

\* C2 witness: the hint is the selected region itself, the roster says otherwise.
WitC2_HintOfSelectedRegion ==
    /\ Resolved
    /\ ~IsPlaceholderId(out.rec.eid)
    /\ RosterIdx(out.rec.eid) # {}
    /\ ~RosterMatches(out.rec.eid)
    /\ refRecords[FirstIdx(RosterIdx(out.rec.eid))].country \in DOMAIN COUNTRY_REGION_MAP
    /\ HintRegion(toUpperCase(out.rec.repRegion)) = selectedRegion
    /\ ~out.res.included
    /\ out.res.info.matchType = "scr"

\* no usable roster signal: no entry at all, or none in the region and the first
\* entry's country blank or unknown
NoRosterSignal(eid) ==
    /\ ~IsPlaceholderId(eid)
    /\ ~RosterMatches(eid)
    /\ RosterIdx(eid) # {} =>
          LET first == refRecords[FirstIdx(RosterIdx(eid))].country
          IN  first = NULL \/ first \notin DOMAIN COUNTRY_REGION_MAP

\* the outcome the hint key k gives: table order segment, country code, default include
FollowsHint(k) ==
    IF k \in DOMAIN MARKET_SEGMENT_REGION_MAP
    THEN /\ out.res.info.matchType = "segment_direct"
         /\ out.res.included <=> (MARKET_SEGMENT_REGION_MAP[k] = selectedRegion)
    ELSE IF Len(k) = 2 /\ k \in DOMAIN COUNTRY_CODE_REGION_MAP
    THEN /\ out.res.info.matchType = "segment_country_code"
         /\ out.res.included <=> (COUNTRY_CODE_REGION_MAP[k] = selectedRegion)
    ELSE out.res.included /\ out.res.info.matchType = "unknown"

\* C3 as stated: the hint string itself is matched against the tables.
CexC3_HintMatchedAsWritten ==
    (Resolved /\ NoRosterSignal(out.rec.eid)) => FollowsHint(out.rec.repRegion)

\* C3 amended: with no usable roster signal the outcome follows the hint after it is
\* trimmed and upper-cased: segment table, else two-character country code, else
\* included as unknown; an unrecognised hint never excludes.
ThmC3_HintFallbackOrder ==
    (Resolved /\ NoRosterSignal(out.rec.eid))
        => /\ FollowsHint(toUpperCase(trim(out.rec.repRegion)))
           /\ ~out.res.included => out.res.info.matchType # "unknown"

\* C3 witness: a lower-case hint of another region excludes the record.
WitC3_LowerCaseHintExcludes ==
    /\ Resolved
    /\ NoRosterSignal(out.rec.eid)
    /\ HintRegion(out.rec.repRegion) = "none"
    /\ HintRegion(toUpperCase(trim(out.rec.repRegion))) \in REGIONS \ {selectedRegion}
    /\ ~out.res.included

(***************************************************************************)
(* The three runs: handleRunValidation of each tab returns at once unless   *)
(* both files hold records and a period is selected; its deferred callback *)
(* calls the validator and stores the result (or the error it threw).      *)
(***************************************************************************)
RunValidation ==
    /\ pc = "idle"
    /\ Len(allRecords) > 0 /\ Len(refRecords) > 0 /\ Len(selectedMonth) > 0
    /\ out' = runValidation(allRecords, refRecords, selectedMonth, selectedRegion)
    /\ op' = "runValidation"
    /\ pc' = "done"
    /\ UNCHANGED <<Inputs, header, tabVars>>

RunOverlayValidation ==
    /\ pc = "idle"
    /\ Len(allRecords) > 0 /\ Len(refRecords) > 0 /\ Len(selectedMonth) > 0
    /\ out' = runOverlayValidation(allRecords, refRecords, selectedMonth, selectedRegion)
    /\ op' = "runOverlayValidation"
    /\ pc' = "done"
    /\ UNCHANGED <<Inputs, header, tabVars>>

RunLmsValidation ==
    /\ pc = "idle"
    /\ Len(lmsRecords) > 0 /\ Len(refRecords) > 0 /\ Len(selectedMonth) > 0
    /\ out' = runLmsValidation(lmsRecords, refRecords, selectedMonth, selectedRegion)
    /\ op' = "runLmsValidation"
    /\ pc' = "done"
    /\ UNCHANGED <<Inputs, header, tabVars>>

RunOps == {"runValidation", "runOverlayValidation", "runLmsValidation"}
\* a run returned results (it did not throw)
Ran == pc = "done" /\ op \in RunOps /\ "v1" \in DOMAIN out

(***************************************************************************)
(* SpecV1: Check 1 of the three runs on one record and a roster.           *)
(***************************************************************************)
TBH1 == <<"T","B","H","1">>
Dash == <<"-">>
Jan2026 == [year |-> 2026, month |-> 1]
EmptyLms == [m \in {"JAN", "FEB", "MAR", "APR", "MAY", "JUN"} |-> NullVal]

LmsRec(row, eid, geo, component, planType, eff, rev1, rev2) ==
    [row |-> row, employeeId |-> eid, geo |-> geo, component |-> component,
     planType |-> planType, quotaEffectiveDate |-> eff,
     rev1Monthly |-> rev1, rev2Monthly |-> rev2]

InitV1 ==
    LET V1Eids == {E1, <<>>, Dash, TBH1, <<"t","b","h">>}
        V1Roster ==
            {RefRec(E1, a, l, c) : a \in {"Yes", "No"}, l \in {NULL, "Yes"},
                                   c \in {"Japan", "India", "Germany"}}
            \cup {RefRec(E1, NULL, NULL, NULL), RefRec(TBH1, "Yes", NULL, "Japan"),
                  RefRec(Dash, "Yes", NULL, "Japan")}
    IN  /\ \E e \in V1Eids :
              /\ allRecords = <<QuotaRec(7, e, <<>>, Jan2026, Jan2026, FullQuotas)>>
              \* parseLmsQuotaFile drops the rows with a blank employee id
              /\ lmsRecords = IF e = <<>> THEN <<>>
                              ELSE <<LmsRec(2, e, <<"S","A">>, "Non-SA", <<"S","e","m","i">>,
                                            NullDate, EmptyLms, EmptyLms)>>
        /\ refRecords \in SeqsUpTo(V1Roster, MaxRefs)
        /\ selectedMonth = LabelJan26
        /\ selectedRegion \in {"APAC", "EMEAL"}
        /\ pc = "idle"
        /\ op = "none"
        /\ out = NoResult
        /\ EngineOnly

NextV1 == RunValidation \/ RunOverlayValidation \/ RunLmsValidation

SpecV1 == InitV1 /\ [][NextV1]_vars

(***************************************************************************)
(* Claims about Check 1 (SpecV1).                                          *)
(***************************************************************************)
RecordEid(rec) == IF "employeeId" \in DOMAIN rec THEN rec.employeeId ELSE rec.eid
HeldRecords == IF op = "runLmsValidation" THEN lmsRecords ELSE allRecords

\* C4: in each of the three runs every in-scope record with a placeholder identifier
\* gets Check 1 verdict 'skip', whatever the roster holds.
ThmC4_PlaceholderSkips ==
    Ran => /\ \A i \in 1..Len(out.v1) :
                 IsPlaceholderId(RecordEid(out.v1[i].record)) => out.v1[i].status = "skip"
           /\ \A k \in 1..Len(HeldRecords) :
                 IsPlaceholderId(RecordEid(HeldRecords[k]))
                    => \E i \in 1..Len(out.v1) : out.v1[i].record = HeldRecords[k]

\* C4 witness: the roster holds an active, in-region entry under the placeholder id.
WitC4_PlaceholderInRoster ==
    /\ Ran
    /\ op = "runLmsValidation"
    /\ Len(out.v1) = 1
    /\ IsPlaceholderId(RecordEid(out.v1[1].record))
    /\ \E j \in RosterIdx(RecordEid(out.v1[1].record)) :
          /\ refRecords[j].activeStatus = "Yes"
          /\ refRecords[j].onLeave = NULL
          /\ InRegion(refRecords[j].country, selectedRegion)
    /\ out.v1[1].status = "skip"

\* a roster entry with zero violations
Clean(ref) ==
    /\ ref.activeStatus = "Yes"
    /\ ref.onLeave \in {NULL, ""}
    /\ InRegion(ref.country, selectedRegion)
CleanIdx(eid) == {j \in RosterIdx(eid) : Clean(refRecords[j])}

\* C5: a non-placeholder record with roster entries passes iff one of them has zero
\* violations, and the evidence recorded is the first such entry in roster order.
ThmC5_PassOnFirstCleanEntry ==
    Ran => \A i \in 1..Len(out.v1) :
              LET eid == RecordEid(out.v1[i].record)
              IN  (~IsPlaceholderId(eid) /\ RosterIdx(eid) # {})
                     => /\ out.v1[i].status = "pass" <=> CleanIdx(eid) # {}
                        /\ out.v1[i].status = "pass"
                              => LET f == refRecords[FirstIdx(CleanIdx(eid))]
                                 IN  out.v1[i].refInfo =
                                        [activeStatus |-> f.activeStatus,
                                         onLeave |-> f.onLeave, country |-> f.country]

\* C5 witness: two clean entries of different countries; the first is the evidence.
WitC5_TwoCleanEntries ==
    /\ Ran
    /\ op = "runValidation"
    /\ Len(out.v1) = 1
    /\ out.v1[1].status = "pass"
    /\ \E a, b \in CleanIdx(RecordEid(out.v1[1].record)) :
          /\ a < b
          /\ refRecords[a].country # refRecords[b].country
          /\ out.v1[1].refInfo.country = refRecords[a].country

Mentions(reason, piece) == \E k \in 1..Len(reason) : reason[k] = piece
LastIdx(S) == CHOOSE i \in S : \A j \in S : j <= i

\* C6: when every roster entry of a non-placeholder record violates a condition the
\* verdict is 'fail' and the reason names exactly the violated conditions of the last
\* entry examined.
ThmC6_FailReasonOfLastEntry ==
    Ran => \A i \in 1..Len(out.v1) :
              LET eid == RecordEid(out.v1[i].record)
              IN  (~IsPlaceholderId(eid) /\ RosterIdx(eid) # {} /\ CleanIdx(eid) = {})
                     => LET last == refRecords[LastIdx(RosterIdx(eid))]
                        IN  /\ out.v1[i].status = "fail"
                            /\ Mentions(out.v1[i].reason, "Active Status=")
                                  <=> last.activeStatus # "Yes"
                            /\ Mentions(out.v1[i].reason, "On Leave=")
                                  <=> last.onLeave \notin {NULL, ""}
                            /\ Mentions(out.v1[i].reason, "Country=")
                                  <=> ~InRegion(last.country, selectedRegion)

\* C6 witness: the first entry fails on active status only, the last on leave only.
WitC6_EarlierViolationNotReported ==
    /\ Ran
    /\ op = "runLmsValidation"
    /\ Len(out.v1) = 1
    /\ out.v1[1].status = "fail"
    /\ LET idx == RosterIdx(RecordEid(out.v1[1].record))
       IN  /\ Cardinality(idx) = 2
           /\ refRecords[FirstIdx(idx)].activeStatus = "No"
           /\ refRecords[LastIdx(idx)].activeStatus = "Yes"
           /\ refRecords[LastIdx(idx)].onLeave = "Yes"
    /\ Mentions(out.v1[1].reason, "On Leave=")
    /\ ~Mentions(out.v1[1].reason, "Active Status=")


(***************************************************************************)
(* SpecV2: the duplicate check of runValidation on up to MaxRecs records.  *)
(***************************************************************************)
MaxRecs == 3

Feb2026 == [year |-> 2026, month |-> 2]
V2Eids == {E1, E2, TBH1}

InitV2 ==
    LET LabelFeb26 == <<"F","e","b","-","2","6">>
        \* QuotaRecord.submissionMonth is Date | null; parseQuotaFile itself only keeps
        \* rows with a date
        V2Months == {Jan2026, Feb2026, NullDate}
    IN  /\ \E n \in 0..MaxRecs :
              \E e \in [1..n -> V2Eids], sm \in [1..n -> V2Months] :
                 allRecords = [i \in 1..n |->
                                  QuotaRec(i + 1, e[i], <<>>, Jan2026, sm[i], FullQuotas)]
        /\ lmsRecords = <<>>
        /\ refRecords \in SeqsUpTo({RefRec(E1, "Yes", NULL, "Japan")}, 1)
        /\ selectedMonth \in {LabelJan26, LabelFeb26}
        /\ selectedRegion = "APAC"
        /\ pc = "idle"
        /\ op = "none"
        /\ out = NoResult
        /\ EngineOnly

SpecV2 == InitV2 /\ [][RunValidation]_vars

(***************************************************************************)
(* Claims about the duplicate check (SpecV2).                              *)
(***************************************************************************)
SelectedPeriodV2 == IF selectedMonth = LabelJan26 THEN Jan2026 ELSE Feb2026

\* positions of the non-placeholder records of the selected period that carry eid
SharersOf(eid) ==
    {i \in 1..Len(allRecords) :
        /\ allRecords[i].submissionMonth = SelectedPeriodV2
        /\ ~IsPlaceholderId(allRecords[i].eid)
        /\ allRecords[i].eid = eid}

GroupsOf(eid) == {k \in 1..Len(out.v2) : out.v2[k].eid = eid}

SeqElems(s) == {s[i] : i \in 1..Len(s)}

\* C7: among the records of the selected period, an identifier shared by N > 1
\* non-placeholder records gets exactly one duplicate group, holding exactly those
\* N records; an identifier with N <= 1 gets no group; records of another period, or
\* of none, are in no group and do not count.
ThmC7_OneGroupPerSharedId ==
    (Ran /\ op = "runValidation") =>
        \A eid \in V2Eids :
            LET N == Cardinality(SharersOf(eid))
            IN  IF N > 1
                THEN /\ Cardinality(GroupsOf(eid)) = 1
                     /\ \A k \in GroupsOf(eid) :
                           /\ Len(out.v2[k].occurrences) = N
                           /\ SeqElems(out.v2[k].occurrences)
                                 = {allRecords[i] : i \in SharersOf(eid)}
                ELSE GroupsOf(eid) = {}

\* two records of the period share E1, a third E1 record belongs to another period
WitC7_ThirdRecordOfOtherPeriod ==
    /\ Ran /\ op = "runValidation"
    /\ Len(allRecords) = 3
    /\ \A i \in 1..3 : allRecords[i].eid = E1
    /\ Cardinality(SharersOf(E1)) = 2
    /\ Len(out.v2) = 1
    /\ Len(out.v2[1].occurrences) = 2


(***************************************************************************)
(* SpecV3: the quota-completeness check on one record of the selected      *)
(* period, in the quota tab's run and in the overlay tab's run.            *)
(***************************************************************************)
LabelJul25 == <<"J","u","l","-","2","5">>
LabelDec25 == <<"D","e","c","-","2","5">>
PeriodOf(label) ==
    IF label = LabelJul25 THEN [year |-> 2025, month |-> 7]
    ELSE IF label = LabelDec25 THEN [year |-> 2025, month |-> 12]
    ELSE IF label = LabelJan26 THEN [year |-> 2026, month |-> 1]
    ELSE [year |-> 2026, month |-> 6]

CalKey == <<"JAN", "FEB", "MAR", "APR", "MAY", "JUN",
            "JUL", "AUG", "SEP", "OCT", "NOV", "DEC">>
HalfFirst == IF PeriodOf(selectedMonth).month >= 7 THEN 7 ELSE 1
HalfLast == HalfFirst + 5

InitV3 ==
    LET LabelJun26 == <<"J","u","n","-","2","6">>
        V3Labels == {LabelJul25, LabelDec25, LabelJan26, LabelJun26}
        V3StartDates == {NullDate} \cup [year : {2024, 2025, 2026}, month : 1..12]
        V3Amounts == {Num(0), Num(100)}
    IN  /\ selectedMonth \in V3Labels
        /\ \E qs \in V3StartDates, a \in [HalfFirst..HalfLast -> V3Amounts] :
              allRecords =
                  <<QuotaRec(4, E1, <<>>, qs, PeriodOf(selectedMonth),
                             [key \in {CalKey[m] : m \in 1..12} |->
                                 LET m == CHOOSE m \in 1..12 : CalKey[m] = key
                                 IN  IF m \in HalfFirst..HalfLast THEN a[m] ELSE Num(100)])>>
        /\ lmsRecords = <<>>
        \* no roster entry for the record: the overlay run includes it by default
        /\ refRecords = <<RefRec(E2, "Yes", NULL, "Japan")>>
        /\ selectedRegion = "APAC"
        /\ pc = "idle"
        /\ op = "none"
        /\ out = NoResult
        /\ EngineOnly

NextV3 == RunValidation \/ RunOverlayValidation

SpecV3 == InitV3 /\ [][NextV3]_vars

(***************************************************************************)
(* Claims about the quota-completeness check (SpecV3).                     *)
(***************************************************************************)
RanV3 == Ran /\ op \in {"runValidation", "runOverlayValidation"}
TheRecord == allRecords[1]
StartDate == TheRecord.quotaStartDate
HalfYear == PeriodOf(selectedMonth).year
ZeroAt(m) == TheRecord.monthlyQuotas[CalKey[m]] = Num(0)
\* the record has a Check 3 result
Reported == \E k \in 1..Len(out.v3) : out.v3[k].record = TheRecord
\* month m is in the primary-Y1 missing list of the record's result
Listed(m) ==
    \E k \in 1..Len(out.v3) :
        /\ out.v3[k].record = TheRecord
        /\ CalKey[m] \in SeqElems(out.v3[k].missingMonths)
StartsAfterHalf ==
    /\ StartDate # NullDate
    /\ \/ StartDate.year > HalfYear
       \/ StartDate.year = HalfYear /\ StartDate.month > HalfLast
Evaluated == StartDate # NullDate /\ ~StartsAfterHalf
SeptemberStart ==
    /\ RanV3 /\ HalfFirst = 7
    /\ StartDate # NullDate /\ StartDate.year = HalfYear /\ StartDate.month = 9

\* C8 as stated: with a September start in the H1 year, zero October and November
\* amounts are listed, and July, August and September are never listed.
CexC8_SeptemberNotChecked ==
    SeptemberStart =>
        /\ ZeroAt(10) => Listed(10)
        /\ ZeroAt(11) => Listed(11)
        /\ ~Listed(7) /\ ~Listed(8) /\ ~Listed(9)

\* C8: with a September start in the H1 year, zero October and November amounts are
\* listed, July and August are never listed, and September, the start month itself,
\* is checked: it is listed exactly when its amount is missing.
ThmC8_SeptemberStartScenario ==
    SeptemberStart =>
        /\ ZeroAt(10) => Listed(10)
        /\ ZeroAt(11) => Listed(11)
        /\ ~Listed(7) /\ ~Listed(8)
        /\ Listed(9) <=> ZeroAt(9)

WitC8_SeptemberListed ==
    /\ SeptemberStart
    /\ ZeroAt(7) /\ ~ZeroAt(8) /\ ZeroAt(9) /\ ZeroAt(10) /\ ZeroAt(11) /\ ~ZeroAt(12)
    /\ Len(out.v3) = 1
    /\ out.v3[1].missingMonths = <<"SEP", "OCT", "NOV">>

Later(a, b) == IF a >= b THEN a ELSE b
\* the months of the half that are listed are the zero ones from month `from` on
CheckedFrom(from) == \A m \in HalfFirst..HalfLast : Listed(m) <=> (m >= from /\ ZeroAt(m))

\* C9 as stated: the effective start month of an evaluated record is the later of
\* the half's first month and the start month, also when the start year is earlier
\* than the half's year.
CexC9_MaxWhateverTheYear ==
    (RanV3 /\ Evaluated) => CheckedFrom(Later(HalfFirst, StartDate.month))

\* C9: the effective start month of an evaluated record is the later of the half's
\* first month and the start month when the start year is the half's year, and the
\* half's first month when the start year is earlier.
ThmC9_EffectiveStartMonth ==
    (RanV3 /\ Evaluated) =>
        CheckedFrom(IF StartDate.year = HalfYear
                    THEN Later(HalfFirst, StartDate.month)
                    ELSE HalfFirst)

\* a start in September of the year before: the half's first month is checked
WitC9_EarlierYearLaterMonth ==
    /\ RanV3 /\ Evaluated
    /\ StartDate.year < HalfYear /\ StartDate.month > HalfFirst
    /\ ZeroAt(HalfFirst) /\ Listed(HalfFirst)

\* C10: a record with no quota-start date, or one that starts strictly after the
\* last month of the half, has no Check 3 result whatever its amounts; every other
\* record is evaluated: a missing amount in the half's last month reports it, and
\* it is reported only for a missing amount of the half.
ThmC10_CandidateSet ==
    RanV3 =>
        /\ (StartDate = NullDate \/ StartsAfterHalf) => ~Reported
        /\ Evaluated =>
              /\ ZeroAt(HalfLast) => Reported
              /\ Reported => \E m \in HalfFirst..HalfLast : ZeroAt(m)

\* a start in the month after the half's end, all amounts missing, no result
WitC10_StartJustAfterHalf ==
    /\ RanV3 /\ StartsAfterHalf
    /\ \/ StartDate.year = HalfYear /\ StartDate.month = HalfLast + 1
       \/ StartDate.year = HalfYear + 1 /\ StartDate.month = 1 /\ HalfLast = 12
    /\ \A m \in HalfFirst..HalfLast : ZeroAt(m)
    /\ out.v3 = <<>>


(***************************************************************************)
(* SpecV3B: the quota-completeness check on one record of the selected     *)
(* period with every kind of cell value, all four buckets, and every       *)
(* calendar month as the selected period.                                  *)
(***************************************************************************)

FirstOf(period) == IF period.month >= 7 THEN 7 ELSE 1

\* a bucket holding v in the months of S and 100 elsewhere
BucketWith(S, v) ==
    [key \in {CalKey[m] : m \in 1..12} |->
        IF (CHOOSE m \in 1..12 : CalKey[m] = key) \in S THEN v ELSE Num(100)]

BucketRec(flag, qs, period, y1, y2y3, comp2, comp2y2y3) ==
    [sheet |-> "IC Quota", row |-> 4, eid |-> E1, repRegion |-> <<>>,
     dualMetric |-> flag, quotaStartDate |-> qs, submissionMonth |-> period,
     monthlyQuotas |-> y1, monthlyQuotasY2Y3 |-> y2y3,
     monthlyQuotasComp2 |-> comp2, monthlyQuotasComp2Y2Y3 |-> comp2y2y3]

InitV3B ==
        \* one value kind (of those cellVal can return: null, numbers, strings)
        \* spread over a set of months of the half
    LET InitValues ==
            LET MissingKinds == {NullVal, Num(0), Str(<<>>), Str(<<" ">>), Str(<<"-">>),
                                 Str(<<" ", "-", " ">>)}
                OtherKinds == {Num(100), Str(<<"0">>), Str(<<"x">>), Str(<<"-", "-">>)}
                CellKinds == MissingKinds \cup OtherKinds
                HalfMonthsOf(period) == FirstOf(period)..(FirstOf(period) + 5)
            IN  \E period \in {[year |-> 2025, month |-> 7], [year |-> 2026, month |-> 1]} :
                \E qs \in {[year |-> period.year, month |-> FirstOf(period)],
                           [year |-> period.year, month |-> FirstOf(period) + 2],
                           [year |-> period.year, month |-> FirstOf(period) + 5],
                           [year |-> period.year - 1, month |-> FirstOf(period) + 3]} :
                \E v \in CellKinds, S \in SUBSET HalfMonthsOf(period) :
                \E y2y3 \in {NullQuotas, BucketWith(1..12, v)} :
                    /\ selectedMonth = formatSubmissionMonth(period)
                    /\ allRecords = <<BucketRec(<<"S","M","C">>, qs, period, BucketWith(S, v), y2y3,
                                                NullQuotas, NullQuotas)>>
        \* each bucket absent, complete, or with a missing value; each flag
        InitBuckets ==
            LET BucketKinds(period) ==
                    {NullQuotas, BucketWith({}, Num(0)), BucketWith({FirstOf(period)}, Num(0)),
                     BucketWith({FirstOf(period) + 5}, NullVal),
                     BucketWith({FirstOf(period) + 3}, Str(<<"-">>))}
            IN  LET FlagKinds == {<<"S","M","C">>, <<"D","M","C">>, <<"d","m","c">>, <<>>}
                IN  \E period \in {[year |-> 2025, month |-> 7], [year |-> 2026, month |-> 1]} :
                    \E qs \in {[year |-> period.year, month |-> FirstOf(period)],
                               [year |-> period.year, month |-> FirstOf(period) + 2]} :
                    \E flag \in FlagKinds :
                    \E y1 \in {BucketWith({}, Num(0)), BucketWith({FirstOf(period) + 5}, Num(0))} :
                    \E y2y3 \in BucketKinds(period), comp2 \in BucketKinds(period),
                       comp2y2y3 \in BucketKinds(period) :
                        /\ selectedMonth = formatSubmissionMonth(period)
                        /\ allRecords = <<BucketRec(flag, qs, period, y1, y2y3, comp2, comp2y2y3)>>
        \* every calendar month as the selected period, all amounts of the record missing
        InitPeriods ==
            \E period \in [year : {2025, 2026}, month : 1..12] :
            \E qs \in [year : {period.year - 1, period.year}, month : 1..12] :
                /\ selectedMonth = formatSubmissionMonth(period)
                /\ allRecords = <<BucketRec(<<"S","M","C">>, qs, period, BucketWith(1..12, Num(0)),
                                            NullQuotas, NullQuotas, NullQuotas)>>
    IN  /\ InitValues \/ InitBuckets \/ InitPeriods
        /\ lmsRecords = <<>>
        /\ refRecords = <<RefRec(E2, "Yes", NULL, "Japan")>>
        /\ selectedRegion = "APAC"
        /\ pc = "idle"
        /\ op = "none"
        /\ out = NoResult
        /\ EngineOnly

SpecV3B == InitV3B /\ [][NextV3]_vars


(***************************************************************************)
(* Claims about the missing rule, the buckets, the result and the half     *)
(* (SpecV3B).  The record is always of the selected period and evaluated.  *)
(***************************************************************************)
RanB == Ran /\ op \in {"runValidation", "runOverlayValidation"}
RecB == allRecords[1]
PeriodB == RecB.submissionMonth
FirstB == IF PeriodB.month \in 7..12 THEN 7 ELSE 1
\* the effective start month of the record
EffB == IF RecB.quotaStartDate.year = PeriodB.year /\ RecB.quotaStartDate.month > FirstB
        THEN RecB.quotaStartDate.month
        ELSE FirstB
\* the results of the record
ResultsB == {k \in 1..Len(out.v3) : out.v3[k].record = RecB}

Blank == {" "}
\* null, the number 0, or a string that is blank or "-" once trimmed
MissingValue(val) ==
    \/ val = NullVal
    \/ val = Num(0)
    \/ /\ val.t = "str"
       /\ \A i \in 1..Len(val.v) : val.v[i] \in Blank \cup {"-"}
       /\ Cardinality({i \in 1..Len(val.v) : val.v[i] = "-"}) <= 1

\* the months of the half from the effective start on whose value is missing,
\* in calendar order, as month keys
ExpectedMissing(bucket) ==
    LET months == SelectSeq([i \in 1..6 |-> FirstB + i - 1],
                            LAMBDA m : m >= EffB /\ MissingValue(bucket[CalKey[m]]))
    IN  [i \in 1..Len(months) |-> CalKey[months[i]]]

DualMetric == RecB.dualMetric \in {<<"D","M","C">>, <<"d","m","c">>}
CheckedY2Y3 == RecB.monthlyQuotasY2Y3 # NullQuotas
CheckedComp2 == DualMetric /\ RecB.monthlyQuotasComp2 # NullQuotas
CheckedComp2Y2Y3 == DualMetric /\ RecB.monthlyQuotasComp2Y2Y3 # NullQuotas

\* the missing list each bucket must have: empty for a bucket that is not checked
ExpectedY1 == ExpectedMissing(RecB.monthlyQuotas)
ExpectedY2Y3 == IF CheckedY2Y3 THEN ExpectedMissing(RecB.monthlyQuotasY2Y3) ELSE <<>>
ExpectedComp2 == IF CheckedComp2 THEN ExpectedMissing(RecB.monthlyQuotasComp2) ELSE <<>>
ExpectedComp2Y2Y3 ==
    IF CheckedComp2Y2Y3 THEN ExpectedMissing(RecB.monthlyQuotasComp2Y2Y3) ELSE <<>>

\* C11: in every result, the missing list of each checked bucket is exactly the
\* months of the half, in calendar order, from the effective start month on whose
\* value is null, the number 0, or a string that is blank or "-" after trimming;
\* a non-zero number or any other string is not missing.
ThmC11_MissingRule ==
    RanB =>
        \* a missing value of a checked month is listed, so the record has a result
        /\ ExpectedMissing(RecB.monthlyQuotas) # <<>> => ResultsB # {}
        /\ \A k \in ResultsB :
               /\ out.v3[k].missingMonths = ExpectedMissing(RecB.monthlyQuotas)
               /\ CheckedY2Y3 =>
                     out.v3[k].missingMonthsY2Y3 = ExpectedMissing(RecB.monthlyQuotasY2Y3)
               /\ CheckedComp2 =>
                     out.v3[k].missingMonthsComp2 = ExpectedMissing(RecB.monthlyQuotasComp2)
               /\ CheckedComp2Y2Y3 =>
                     out.v3[k].missingMonthsComp2Y2Y3
                         = ExpectedMissing(RecB.monthlyQuotasComp2Y2Y3)

\* a dash between blanks before and after the effective start: only the later is listed
WitC11_PaddedDashListed ==
    /\ RanB /\ PeriodB.month = 7 /\ EffB = 9
    /\ RecB.monthlyQuotas["JUL"] = Str(<<" ", "-", " ">>)
    /\ RecB.monthlyQuotas["OCT"] = Str(<<" ", "-", " ">>)
    /\ RecB.monthlyQuotas["SEP"] = Num(100)
    /\ \E k \in ResultsB :
          /\ out.v3[k].missingMonths = <<"OCT">>
          /\ out.v3[k].missingMonthsY2Y3 = <<"SEP", "OCT", "NOV", "DEC">>

\* C12: the primary/Y1 bucket is always checked; the Y2&Y3 bucket contributes
\* missing months only if the record has it; a secondary bucket contributes only if
\* the record is flagged dual-metric and has the bucket.  A record that is not
\* dual-metric is never reported because of secondary values, and an absent bucket
\* never has a missing month.
ThmC12_BucketGating ==
    RanB =>
        /\ \A k \in ResultsB :
              /\ out.v3[k].missingMonthsY2Y3 = ExpectedY2Y3
              /\ out.v3[k].missingMonthsComp2 = ExpectedComp2
              /\ out.v3[k].missingMonthsComp2Y2Y3 = ExpectedComp2Y2Y3
              /\ out.v3[k].hasY2Y3 = CheckedY2Y3
              /\ out.v3[k].hasComp2 = CheckedComp2
              /\ out.v3[k].hasComp2Y2Y3 = CheckedComp2Y2Y3
        /\ ExpectedY1 # <<>> => ResultsB # {}
        /\ (CheckedY2Y3 /\ ExpectedY2Y3 # <<>>) => ResultsB # {}
        /\ (CheckedComp2 /\ ExpectedComp2 # <<>>) => ResultsB # {}
        /\ (~DualMetric /\ ExpectedY1 = <<>> /\ ExpectedY2Y3 = <<>>) => ResultsB = {}

\* a single-metric record with missing secondary values and nothing else missing
WitC12_SingleMetricSecondaryIgnored ==
    /\ RanB /\ RecB.dualMetric = <<"S","M","C">>
    /\ RecB.monthlyQuotasComp2 # NullQuotas
    /\ ExpectedMissing(RecB.monthlyQuotasComp2) # <<>>
    /\ RecB.monthlyQuotasComp2Y2Y3 # NullQuotas
    /\ ExpectedMissing(RecB.monthlyQuotasComp2Y2Y3) # <<>>
    /\ RecB.monthlyQuotasY2Y3 # NullQuotas
    /\ out.v3 = <<>>

HalfKeysB == {CalKey[m] : m \in FirstB..(FirstB + 5)}
\* the snapshot of a bucket: its value in each of the six months of the half
SnapshotB(checked, bucket) ==
    [key \in HalfKeysB |-> IF checked THEN bucket[key] ELSE NullVal]

\* C13: the record is reported iff at least one checked bucket has a missing
\* month, and at most once; each result carries, for each checked bucket, the value
\* of each of the six months of the half, also of the months before the effective
\* start and of the months that are not missing (null for a bucket not checked).
ThmC13_ReportedWithSnapshots ==
    RanB =>
        /\ ResultsB # {} <=>
              \/ ExpectedY1 # <<>> \/ ExpectedY2Y3 # <<>>
              \/ ExpectedComp2 # <<>> \/ ExpectedComp2Y2Y3 # <<>>
        /\ Cardinality(ResultsB) <= 1
        /\ \A k \in ResultsB :
              /\ out.v3[k].quotaValues = SnapshotB(TRUE, RecB.monthlyQuotas)
              /\ out.v3[k].quotaValuesY2Y3 = SnapshotB(CheckedY2Y3, RecB.monthlyQuotasY2Y3)
              /\ out.v3[k].quotaValuesComp2 = SnapshotB(CheckedComp2, RecB.monthlyQuotasComp2)
              /\ out.v3[k].quotaValuesComp2Y2Y3
                    = SnapshotB(CheckedComp2Y2Y3, RecB.monthlyQuotasComp2Y2Y3)

\* reported for a secondary bucket only; the snapshot holds the value of a month
\* before the effective start and values that are not missing
WitC13_SecondaryOnlyWithEarlyMonth ==
    /\ RanB /\ DualMetric /\ EffB = FirstB + 2
    /\ ExpectedY1 = <<>> /\ ExpectedY2Y3 = <<>> /\ ExpectedComp2 # <<>>
    /\ RecB.monthlyQuotasComp2Y2Y3 # NullQuotas
    /\ RecB.monthlyQuotasComp2Y2Y3[CalKey[FirstB]] = Num(0)
    /\ \E k \in ResultsB :
          /\ out.v3[k].missingMonths = <<>>
          /\ out.v3[k].quotaValuesComp2Y2Y3[CalKey[FirstB]] = Num(0)
          /\ out.v3[k].quotaValues[CalKey[FirstB + 1]] = Num(100)

\* C14: a selected period of calendar month 7 to 12 selects H1 with the months
\* JUL..DEC (calendar 7 to 12); one of calendar month 1 to 6 selects H2 with the
\* months JAN..JUN (calendar 1 to 6); the i-th month key of the half has calendar
\* index first month + i.
ThmC14_FiscalHalf ==
    RanB =>
        \A k \in 1..Len(out.v3) :
            /\ out.v3[k].half = IF PeriodB.month \in 7..12 THEN "H1" ELSE "H2"
            /\ DOMAIN out.v3[k].quotaValues =
                  IF PeriodB.month \in 7..12
                  THEN {"JUL", "AUG", "SEP", "OCT", "NOV", "DEC"}
                  ELSE {"JAN", "FEB", "MAR", "APR", "MAY", "JUN"}
            /\ \A j \in 1..Len(out.v3[k].missingMonths) :
                  \E i \in 0..5 :
                      /\ out.v3[k].missingMonths[j] = CalKey[FirstB + i]
                      /\ FirstB + i >= EffB
                      /\ MissingValue(RecB.monthlyQuotas[CalKey[FirstB + i]])
            /\ Len(out.v3[k].missingMonths)
                  = Cardinality({m \in EffB..(FirstB + 5) :
                                    MissingValue(RecB.monthlyQuotas[CalKey[m]])})

\* period July, all amounts missing, start in September: H1 with SEP..DEC listed
WitC14_JulySelectsH1 ==
    /\ RanB /\ PeriodB.month = 7
    /\ RecB.quotaStartDate = [year |-> PeriodB.year, month |-> 9]
    /\ Len(out.v3) = 1
    /\ out.v3[1].half = "H1"
    /\ out.v3[1].missingMonths = <<"SEP", "OCT", "NOV", "DEC">>
    /\ RecB.monthlyQuotas["JUL"] = Num(0)


(***************************************************************************)
(* SpecLms: the alignment check of runLmsValidation on one LMS record.     *)
(***************************************************************************)
\* generateLmsProcessingMonths: the label of one processing month
lmsMonthLabel(d) == MonthLabels[d.month] \o <<"-">> \o sliceLast2(String(d.year))
LmsComponents == {"Non-SA", "Rev 1 Only", "Rev 2 Only", "Rev 1 & Rev 2", "Other"}
\* the sets of months that hold a positive amount
LmsPositiveMonths == {{}, {1}, {3}, {6}, {2, 5}, {1, 2, 3}, {4, 5, 6}, 1..6}

\* the Rev 1 columns: numbers, empty where there is no amount
Rev1With(S) ==
    [m \in DOMAIN LMS_MONTH_TO_CAL |->
        IF LMS_MONTH_TO_CAL[m] \in S THEN Num(100) ELSE NullVal]
\* the Rev 2 columns: text cells, "n/a" or the number 0 where there is no amount
Rev2With(S) ==
    [m \in DOMAIN LMS_MONTH_TO_CAL |->
        IF LMS_MONTH_TO_CAL[m] \in S THEN Str(<<"2", ".", "5">>)
        ELSE IF LMS_MONTH_TO_CAL[m] % 2 = 1 THEN Str(<<"n", "/", "a">>) ELSE Num(0)]

InitLms ==
    LET LmsPlanTypes == {<<"S","e","m","i">>, <<"Q","t","r","l","y">>, <<"O","K","R">>,
                         <<"o","k","r">>, <<"A","n","n","u","a","l">>}
        LmsDates == {NullDate} \cup [year : {2025, 2026}, month : 1..12]
    IN  /\ \E c \in LmsComponents, pt \in LmsPlanTypes, d \in LmsDates,
              S1 \in LmsPositiveMonths, S2 \in LmsPositiveMonths :
              lmsRecords = <<LmsRec(2, E1, <<"S","A">>, c, pt, d, Rev1With(S1), Rev2With(S2))>>
        /\ allRecords = <<>>
        \* no roster entry for the record: its Geo "SA" keeps it in every region
        /\ refRecords = <<RefRec(E2, "Yes", NULL, "Japan")>>
        /\ selectedMonth = lmsMonthLabel([year |-> 2026, month |-> 2])
        /\ selectedRegion = "APAC"
        /\ pc = "idle"
        /\ op = "none"
        /\ out = NoResult
        /\ EngineOnly

NextLms == RunLmsValidation

SpecLms == InitLms /\ [][NextLms]_vars


(***************************************************************************)
(* Claims about the alignment check (SpecLms).                             *)
(***************************************************************************)
RanL == Ran /\ op = "runLmsValidation"
RecL == lmsRecords[1]
DateL == RecL.quotaEffectiveDate
ResultsL == {k \in 1..Len(out.v2) : out.v2[k].record = RecL}
\* the issue list of the record (empty when it has no alignment result)
IssuesL == IF ResultsL = {} THEN <<>> ELSE out.v2[CHOOSE k \in ResultsL : TRUE].issues
\* a cell that holds an amount above zero: a number > 0 or the text "2.5"
PositiveCell(val) == (val.t = "num" /\ val.v > 0) \/ val = Str(<<"2", ".", "5">>)
Rev1At(m) == RecL.rev1Monthly[CalKey[m]]
Rev2At(m) == RecL.rev2Monthly[CalKey[m]]
HasIssue(stream, m, type) ==
    \E j \in 1..Len(IssuesL) :
        /\ IssuesL[j].column = <<stream, CalKey[m]>>
        /\ IssuesL[j].month = CalKey[m]
        /\ IssuesL[j].issueType = type
PlanOkr == RecL.planType \in {<<"O","K","R">>, <<"o","k","r">>}
PlanQtrly == RecL.planType = <<"Q","t","r","l","y">>
ChecksRev1 == RecL.component \in {"Non-SA", "Rev 1 Only", "Rev 1 & Rev 2"}
ChecksRev2 == RecL.component \in {"Rev 2 Only", "Rev 1 & Rev 2"}
\* the record has an effective date within JAN..JUN
InWindow == DateL # NullDate /\ DateL.month <= 6

\* C15 as stated: for an OKR record every positive value of either stream is
\* reported as okr_has_amount, for every effective date and every component.
CexC15_OkrAnyDateAnyComponent ==
    (RanL /\ PlanOkr) =>
        \A m \in 1..6 :
            /\ PositiveCell(Rev1At(m)) => HasIssue("Rev1-", m, "okr_has_amount")
            /\ PositiveCell(Rev2At(m)) => HasIssue("Rev2-", m, "okr_has_amount")

\* C15: for an OKR record with an effective date within JAN..JUN, all six months
\* expect zero whatever the effective month: a stream that the component checks has
\* an okr_has_amount issue exactly in its months with a positive value, no month is
\* reported as missing_amount or should_be_zero, and a stream that the component
\* does not check has no okr_has_amount issue.  An OKR record with no effective date
\* or an effective month after June has no issue at all.
ThmC15_OkrExpectsZero ==
    (RanL /\ PlanOkr) =>
        /\ InWindow =>
              \A m \in 1..6 :
                  /\ HasIssue("Rev1-", m, "okr_has_amount")
                        <=> (ChecksRev1 /\ PositiveCell(Rev1At(m)))
                  /\ HasIssue("Rev2-", m, "okr_has_amount")
                        <=> (ChecksRev2 /\ PositiveCell(Rev2At(m)))
                  /\ \A st \in {"Rev1-", "Rev2-"} :
                        /\ ~HasIssue(st, m, "missing_amount")
                        /\ ~HasIssue(st, m, "should_be_zero")
        /\ ~InWindow => IssuesL = <<>>

\* OKR from April, both streams checked: positive values before and after April
WitC15_OkrBeforeAndAfterEffective ==
    /\ RanL /\ PlanOkr /\ InWindow /\ DateL.month = 4
    /\ RecL.component = "Rev 1 & Rev 2"
    /\ HasIssue("Rev1-", 1, "okr_has_amount")
    /\ HasIssue("Rev2-", 5, "okr_has_amount")
    /\ Len(IssuesL) = 5

\* month m expects a positive amount for a plan other than OKR effective from e
ExpectsAmount(e, m) ==
    /\ m >= e
    /\ PlanQtrly => m <= (IF e <= 3 THEN 3 ELSE 6)

\* the issues of one stream are those of the expectation from effective month e
StreamFollows(st, checked, e) ==
    \A m \in 1..6 :
        LET val == IF st = "Rev1-" THEN Rev1At(m) ELSE Rev2At(m)
        IN  /\ HasIssue(st, m, "missing_amount")
                  <=> (checked /\ ExpectsAmount(e, m) /\ ~PositiveCell(val))
            /\ HasIssue(st, m, "should_be_zero")
                  <=> (checked /\ ~ExpectsAmount(e, m) /\ PositiveCell(val))
            /\ ~HasIssue(st, m, "okr_has_amount")

\* C16: for a plan other than OKR, effective month e in 1..6 and month m in 1..6,
\* the months m < e expect zero; Semi and any unrecognised plan expect a positive
\* amount for every m >= e; Qtrly expects a positive amount only for
\* e <= m <= (3 if e <= 3 else 6) and zero after that quarter end.
ThmC16_ExpectedActivePolicy ==
    (RanL /\ ~PlanOkr /\ InWindow) =>
        /\ StreamFollows("Rev1-", ChecksRev1, DateL.month)
        /\ StreamFollows("Rev2-", ChecksRev2, DateL.month)

\* Qtrly from February with an amount in every month: January and April to June
\* are reported, February and March are not
WitC16_QtrlyFromFebruary ==
    /\ RanL /\ PlanQtrly /\ InWindow /\ DateL.month = 2
    /\ RecL.component = "Non-SA"
    /\ \A m \in 1..6 : PositiveCell(Rev1At(m))
    /\ \A m \in {1, 4, 5, 6} : HasIssue("Rev1-", m, "should_be_zero")
    /\ Len(IssuesL) = 4

\* the year of the JAN..JUN window of the selected processing month
WindowYear == parseSubmissionMonthLabel(selectedMonth).year
BeforeWindow == DateL # NullDate /\ DateL.year < WindowYear

\* C17 as stated: a record whose effective month is after June is skipped and
\* never reported; a record whose effective date lies before January of the window
\* is evaluated from January, with all six months expected active by its plan.
CexC17_ClampedToJanuary ==
    RanL =>
        /\ (DateL # NullDate /\ ~BeforeWindow /\ DateL.month > 6) => ResultsL = {}
        /\ (BeforeWindow /\ ~PlanOkr) =>
              /\ StreamFollows("Rev1-", ChecksRev1, 1)
              /\ StreamFollows("Rev2-", ChecksRev2, 1)

\* what the code does with a date of the year before: October is skipped although
\* the plan expects amounts that are all absent, March is evaluated from March
WitC17_PriorYearSkipped ==
    /\ RanL /\ BeforeWindow /\ DateL.month = 10
    /\ RecL.planType = <<"S","e","m","i">> /\ RecL.component = "Non-SA"
    /\ \A m \in 1..6 : ~PositiveCell(Rev1At(m))
    /\ out.v2 = <<>>

\* C18: for an evaluated Rev 2 Only record, in each of the six months, before and
\* after the effective month and for every plan, a positive Rev 1 value is reported
\* as a rev2_only_has_rev1 issue with that month and value; a Rev 1 stream with no
\* positive value has no such issue, and no other component has one.
ThmC18_Rev2OnlyHasRev1 ==
    (RanL /\ InWindow) =>
        \A m \in 1..6 :
            /\ HasIssue("Rev1-", m, "rev2_only_has_rev1")
                  <=> (RecL.component = "Rev 2 Only" /\ PositiveCell(Rev1At(m)))
            /\ ~HasIssue("Rev2-", m, "rev2_only_has_rev1")
            /\ \A j \in 1..Len(IssuesL) :
                  (IssuesL[j].issueType = "rev2_only_has_rev1" /\ IssuesL[j].month = CalKey[m])
                      => IssuesL[j].actualValue = Rev1At(m)

\* Rev 2 Only, OKR from May, Rev 1 amounts in February and May
WitC18_Rev1BeforeEffectiveMonth ==
    /\ RanL /\ InWindow /\ DateL.month = 5 /\ PlanOkr
    /\ RecL.component = "Rev 2 Only"
    /\ HasIssue("Rev1-", 2, "rev2_only_has_rev1")
    /\ HasIssue("Rev1-", 5, "rev2_only_has_rev1")
    /\ \A m \in 1..6 : ~PositiveCell(Rev2At(m))
    /\ Len(IssuesL) = 2

StreamRank(issue) == IF issue.column[1] = "Rev1-" THEN 0 ELSE 1
MonthRank(issue) == CHOOSE m \in 1..6 : CalKey[m] = issue.month

\* C19: in every alignment result the issues are ordered with all Rev1 issues
\* before all Rev2 issues, and within a stream by calendar month ascending.
ThmC19_IssueOrder ==
    RanL =>
        \A k \in 1..Len(out.v2) :
            \A i, j \in 1..Len(out.v2[k].issues) :
                i < j =>
                    LET a == out.v2[k].issues[i]
                        b == out.v2[k].issues[j]
                    IN  \/ StreamRank(a) < StreamRank(b)
                        \/ StreamRank(a) = StreamRank(b) /\ MonthRank(a) < MonthRank(b)

\* issues of both streams in several months
WitC19_BothStreamsSeveralMonths ==
    /\ RanL /\ RecL.component = "Rev 1 & Rev 2"
    /\ Len(IssuesL) >= 4
    /\ \E i, j \in 1..Len(IssuesL) :
          /\ StreamRank(IssuesL[i]) = 0 /\ StreamRank(IssuesL[j]) = 1
          /\ MonthRank(IssuesL[i]) > MonthRank(IssuesL[j])


(***************************************************************************)
(* SpecLmsV3: the on-leave check of runLmsValidation on one LMS record     *)
(* and a roster.                                                           *)
(***************************************************************************)

InitLmsV3 ==
    LET LmsV3Eids == {E1, TBH1}
        LmsV3Labels == {lmsMonthLabel([year |-> 2026, month |-> 2]),
                        lmsMonthLabel([year |-> 2026, month |-> 6]),
                        lmsMonthLabel([year |-> 2025, month |-> 8])}
        \* roster entries of the record's employee e, and one of somebody else
        LmsV3Roster(e) ==
            {RefRec(e, "Yes", "Yes", "Japan"), RefRec(e, "Yes", "Yes", "Germany"),
             RefRec(e, "Yes", NULL, "Japan"), RefRec(e, "No", "Yes", "Japan"),
             RefRec(e, "Yes", "yes", "Japan"), RefRec(e, "No", NULL, "Germany"),
             RefRec(E2, "Yes", "Yes", "Japan")}
        \* the months with an amount in the Rev 1 and in the Rev 2 columns
        LmsV3Amounts == {<<{}, {}>>, <<{2}, {}>>, <<{}, {2}>>, <<{2}, {2}>>, <<{6}, {2, 6}>>,
                         <<{1, 3, 4, 5}, {1, 3, 4, 5}>>}
    IN  /\ \E e \in LmsV3Eids :
              /\ \E c \in LmsComponents, S \in LmsV3Amounts :
                    lmsRecords = <<LmsRec(2, e, <<"S","A">>, c, <<"S","e","m","i">>,
                                          [year |-> 2026, month |-> 1],
                                          Rev1With(S[1]), Rev2With(S[2]))>>
              /\ refRecords \in SeqsUpTo(LmsV3Roster(e), MaxRefs)
        /\ allRecords = <<>>
        /\ selectedMonth \in LmsV3Labels
        /\ selectedRegion = "APAC"
        /\ pc = "idle"
        /\ op = "none"
        /\ out = NoResult
        /\ EngineOnly

SpecLmsV3 == InitLmsV3 /\ [][NextLms]_vars

(***************************************************************************)
(* Claims about the on-leave check (SpecLmsV3).                            *)
(***************************************************************************)
RosterL == RosterIdx(RecL.employeeId)
\* the record passes the region filter of the run
FilteredL ==
    \/ IsPlaceholderId(RecL.employeeId)
    \/ RosterL = {} /\ RecL.geo = <<"S","A">>
    \/ \E i \in RosterL : InRegion(refRecords[i].country, selectedRegion)
OnLeaveL ==
    \E i \in RosterL : refRecords[i].activeStatus = "Yes" /\ refRecords[i].onLeave = "Yes"
\* the calendar month of the selected processing month
ProcessingMonth == parseSubmissionMonthLabel(selectedMonth).month
OnLeaveResults == {k \in 1..Len(out.v3) : out.v3[k].record = RecL}
\* the applicable streams with a positive value in calendar month m, Rev 1 first
TriggeringColumns(m) ==
    (IF ChecksRev1 /\ PositiveCell(Rev1At(m))
     THEN <<[column |-> <<"Rev1-", CalKey[m]>>, value |-> Rev1At(m)]>> ELSE <<>>)
    \o
    (IF ChecksRev2 /\ PositiveCell(Rev2At(m))
     THEN <<[column |-> <<"Rev2-", CalKey[m]>>, value |-> Rev2At(m)]>> ELSE <<>>)

\* C20: a filtered non-placeholder record is reported by the on-leave check iff it
\* has a roster entry with active status exactly "Yes" and on-leave exactly "Yes",
\* the processing month is one of JAN..JUN, and a stream applicable to its component
\* holds a positive value in that month; the reported (column, value) pairs are
\* exactly those streams; values of other months never trigger a report.
ThmC20_OnLeaveWithQuota ==
    RanL =>
        /\ OnLeaveResults # {} <=>
              /\ ~IsPlaceholderId(RecL.employeeId)
              /\ FilteredL
              /\ OnLeaveL
              /\ ProcessingMonth <= 6
              /\ TriggeringColumns(ProcessingMonth) # <<>>
        /\ Cardinality(OnLeaveResults) <= 1
        /\ \A k \in OnLeaveResults :
              /\ out.v3[k].quotaColumnsWithValues = TriggeringColumns(ProcessingMonth)
              /\ out.v3[k].processingMonth = CalKey[ProcessingMonth]

\* the on-leave entry is the second one of the employee; both streams hold an
\* amount in February and in June, February is the processing month
WitC20_BothStreamsInFebruary ==
    /\ RanL /\ ProcessingMonth = 2
    /\ RecL.component = "Rev 1 & Rev 2"
    /\ Len(refRecords) = 2
    /\ refRecords[1] = RefRec(E1, "Yes", NULL, "Japan")
    /\ refRecords[2] = RefRec(E1, "Yes", "Yes", "Germany")
    /\ PositiveCell(Rev1At(2)) /\ PositiveCell(Rev2At(2))
    /\ Len(out.v3) = 1
    /\ Len(out.v3[1].quotaColumnsWithValues) = 2

(***************************************************************************)
(* SpecLmsRegion: the region filter of runLmsValidation on one LMS record, *)
(* with and without roster entries, every Geo spelling, every region.      *)
(***************************************************************************)
InitLmsRegion ==
    LET Geos == {<<"A","P","A","C">>, <<"a","p","a","c">>, <<"E","M","E","A">>,
                 <<"L","A","T","A","M">>, <<"N","A","M","E","R">>, <<"S","A">>,
                 <<"s","a">>, <<"X","X">>, <<>>}
        Roster == {RefRec(e, "Yes", NULL, c) :
                      e \in {E1, E2}, c \in {NULL, "Japan", "Germany", "Canada"}}
    IN  /\ \E e \in {E1, TBH1}, g \in Geos :
              lmsRecords = <<LmsRec(2, e, g, "Non-SA", <<"S","e","m","i">>,
                                    NullDate, EmptyLms, EmptyLms)>>
        /\ refRecords \in SeqsUpTo(Roster, MaxRefs)
        /\ allRecords = <<>>
        /\ selectedMonth = lmsMonthLabel([year |-> 2026, month |-> 2])
        /\ selectedRegion \in REGIONS
        /\ pc = "idle"
        /\ op = "none"
        /\ out = NoResult
        /\ EngineOnly

SpecLmsRegion == InitLmsRegion /\ [][NextLms]_vars

(***************************************************************************)
(* Claims about the LMS region filter (SpecLmsRegion).                     *)
(***************************************************************************)
\* the record is in scope of the run: it is counted and has a Check 1 result
KeptL == out.summary.totalRecords = 1 /\ Len(out.v1) = 1 /\ out.v1[1].record = RecL
\* the region a geography code stands for, "none" for an unmapped code
GeoRegion(geo) ==
    LET g == toUpperCase(geo)
    IN  IF g = <<"A","P","A","C">> THEN "APAC"
        ELSE IF g \in {<<"E","M","E","A">>, <<"L","A","T","A","M">>} THEN "EMEAL"
        ELSE IF g = <<"N","A","M","E","R">> THEN "NAMER"
        ELSE "none"
AlwaysKeptGeo(geo) == toUpperCase(geo) = <<"S","A">>

\* C21: a non-placeholder LMS record with roster entries is kept iff one of them
\* has a country of the selected region; one absent from the roster is kept iff
\* its geography code is "SA" or maps to the selected region (unmapped: dropped).
ThmC21_LmsRegionFilter ==
    (RanL /\ ~IsPlaceholderId(RecL.employeeId)) =>
        /\ RosterL # {} =>
              (KeptL <=> \E i \in RosterL : InRegion(refRecords[i].country, selectedRegion))
        /\ RosterL = {} =>
              (KeptL <=> (AlwaysKeptGeo(RecL.geo) \/ GeoRegion(RecL.geo) = selectedRegion))
        /\ ~KeptL => (out.summary.totalRecords = 0 /\ Len(out.v1) = 0)

\* an identifier absent from the roster with Geo LATAM is kept in EMEAL
WitC21_LatamKeptInEmeal ==
    /\ RanL /\ ~IsPlaceholderId(RecL.employeeId)
    /\ RosterL = {}
    /\ RecL.geo = <<"L","A","T","A","M">>
    /\ selectedRegion = "EMEAL"
    /\ KeptL

(***************************************************************************)
(* SpecPeriod: the three runs on one record per tab, with the period label *)
(* that parseQuotaFile offers for the record's submission date and with    *)
(* labels typed in other forms.                                            *)
(***************************************************************************)
InitPeriod ==
    LET Dates == [year : {1999, 2000, 2026, 2099, 2100}, month : {1, 12}]
        \* labels in and out of the form Mon-YY
        Labels == {LabelJan26, <<"j","a","n","-","2","6">>, <<"D","E","C","-","9","9">>,
                   <<"J","a","n","-","2","0","2","6">>, <<"F","o","o","-","2","6">>,
                   <<"J","a","n","2","6">>, <<"J","a","n","-","2","x">>,
                   <<"2","0","2","6","-","0","1">>, <<"J","a","n","-","2","6"," ">>,
                   <<"J","a","n","/","2","6">>}
        Roster == {RefRec(E1, "Yes", NULL, "Japan"), RefRec(E2, "Yes", NULL, "Japan")}
    IN  /\ \E d \in Dates :
              /\ allRecords = <<QuotaRec(7, E1, <<>>, d, d, FullQuotas)>>
              /\ selectedMonth \in {formatSubmissionMonth(d)} \cup Labels
        /\ lmsRecords = <<LmsRec(2, E1, <<"S","A">>, "Non-SA", <<"S","e","m","i">>,
                                 Jan2026, EmptyLms, EmptyLms)>>
        /\ refRecords \in SeqsUpTo(Roster, MaxRefs)
        /\ selectedRegion = "APAC"
        /\ pc = "idle"
        /\ op = "none"
        /\ out = NoResult
        /\ EngineOnly

SpecPeriod == InitPeriod /\ [][NextV1]_vars

(***************************************************************************)
(* Claims about the period label (SpecPeriod).                             *)
(***************************************************************************)
\* a run was made and returned or threw
RunDone == pc = "done" /\ op \in RunOps
\* the label has the form three-letter month, hyphen, two digits
MonthYearForm(label) ==
    /\ Len(label) = 6
    /\ toLowerCase(SubSeq(label, 1, 3)) \in {MonthNames[m] : m \in 1..12}
    /\ label[4] = "-"
    /\ \A k \in {5, 6} : label[k] \in {"0","1","2","3","4","5","6","7","8","9"}
\* the run failed with the invalid-period error and returned no result
FailedInvalidPeriod ==
    /\ DOMAIN out = {"error"}
    /\ out.error = <<"Invalid submission month: ", selectedMonth>>

\* C22: every run given a period label that is not of the form Mon-YY fails
\* with the invalid-period error and returns no result of any check.
CexC22_InvalidLabelFailsEveryRun ==
    (RunDone /\ ~MonthYearForm(selectedMonth)) => FailedInvalidPeriod

\* the LMS run returned results for the label Foo-26
WitC22_LmsRunAcceptsInvalidLabel ==
    /\ RunDone /\ op = "runLmsValidation"
    /\ selectedMonth = <<"F","o","o","-","2","6">>
    /\ "v1" \in DOMAIN out /\ Len(out.v1) = 1
    /\ out.v3 = <<>>

\* the label parseQuotaFile offers for the record's submission date is selected
OfferedLabelSelected == selectedMonth = formatSubmissionMonth(allRecords[1].submissionMonth)

\* C30: parsing the label formatSubmissionMonth gives a record's submission date
\* yields that date's (year, month), and runValidation with that label
\* selects the record, whatever the year of the date.
CexC30_LabelRoundTrip ==
    (RunDone /\ op = "runValidation" /\ OfferedLabelSelected) =>
        /\ parseSubmissionMonthLabel(selectedMonth)
              = [year  |-> allRecords[1].submissionMonth.year,
                 month |-> allRecords[1].submissionMonth.month]
        /\ "v1" \in DOMAIN out
        /\ out.summary.totalRecords >= 1
        /\ out.v1[1].record = allRecords[1]

\* a submission date of December 1999 is offered as Dec-99 and selects nothing
WitC30_Year1999SelectsNothing ==
    /\ RunDone /\ op = "runValidation" /\ OfferedLabelSelected
    /\ allRecords[1].submissionMonth = [year |-> 1999, month |-> 12]
    /\ selectedMonth = <<"D","e","c","-","9","9">>
    /\ "v1" \in DOMAIN out
    /\ out.summary.totalRecords = 0

(***************************************************************************)
(* excelParser.ts: detectQuotaColumns, the schema mapper of the quota      *)
(* file.  A header row is a sequence of cells (NullVal or Str(chars));     *)
(* column indices count from 0 as in the code.                             *)
(***************************************************************************)
MaxCols == 3

includes(s, sub) == \E i \in 0..(Len(s) - Len(sub)) : SubSeq(s, i + 1, i + Len(sub)) = sub
endsWith(s, suf) == Len(s) >= Len(suf) /\ SubSeq(s, Len(s) - Len(suf) + 1, Len(s)) = suf

MONTH_DEFAULTS_LSS ==
    [m \in {MONTHS[i] : i \in 1..12} |-> 22 + (CHOOSE i \in 1..12 : MONTHS[i] = m)]

\* the characters of a month key of MONTHS
monthChars(m) == toUpperCase(MonthNames[CHOOSE k \in 1..12 : CalKey[k] = m])

\* h === m || hUpper.endsWith(`- ${m}`) || hUpper.endsWith(`\n${m}`)
endsWithMonth(h, m) ==
    \/ h = monthChars(m)
    \/ endsWith(toUpperCase(h), <<"-", " ">> \o monthChars(m))
    \/ endsWith(toUpperCase(h), <<"\n">> \o monthChars(m))

\* the category the isComp2 / isY2Y3 tests put a month column in
bucketOf(h) ==
    LET isComp2 == includes(toUpperCase(h), <<"C","O","M","P","2">>)
        isY2Y3  == includes(toUpperCase(h), <<"Y","2">>)
    IN  IF isComp2 /\ isY2Y3 THEN "comp2Y2Y3"
        ELSE IF isComp2 THEN "comp2Y1"
        ELSE IF isY2Y3 THEN "comp1Y2Y3"
        ELSE "comp1Y1"

\* the loop that lets a later column of the same category and month replace the earlier
RECURSIVE monthColsLoopLastWins(_, _, _)
monthColsLoopLastWins(hdr, c, cols) ==
    IF c >= Len(hdr) THEN cols
    ELSE IF hdr[c + 1] = NullVal THEN monthColsLoopLastWins(hdr, c + 1, cols)
    ELSE LET h   == trim(hdr[c + 1].v)
             hit == {m \in {MONTHS[i] : i \in 1..12} : endsWithMonth(h, m)}
             set == [m \in hit |-> c] @@ cols[bucketOf(h)]
         IN  monthColsLoopLastWins(hdr, c + 1, [cols EXCEPT ![bucketOf(h)] = set])

\* the for loop over the header cells from column c on; cols holds the four
\* category objects, each defined on the months that have a column so far
RECURSIVE monthColsLoop(_, _, _)
monthColsLoop(hdr, c, cols) ==
    IF c >= Len(hdr) THEN cols
    ELSE IF hdr[c + 1] = NullVal THEN monthColsLoop(hdr, c + 1, cols)
    ELSE LET h   == trim(hdr[c + 1].v)
             hit == {m \in {MONTHS[i] : i \in 1..12} :
                        endsWithMonth(h, m) /\ m \notin DOMAIN cols[bucketOf(h)]}
             set == cols[bucketOf(h)] @@ [m \in hit |-> c]
         IN  monthColsLoop(hdr, c + 1, [cols EXCEPT ![bucketOf(h)] = set])

\* the field the else-if chain assigns column c to, "none" when no branch matches
namedFieldOf(h) ==
    IF startsWith(toLowerCase(h), <<"s","u","b","m","i","s","s","i","o","n">>) THEN "submissionMonth"
    ELSE IF h = <<"E","I","D">> THEN "eid"
    ELSE IF h = <<"N","a","m","e">> THEN "name"
    ELSE IF h = <<"L","e","v","e","l">> THEN "level"
    ELSE IF includes(toLowerCase(h), <<"r","e","p"," ","r","e","g","i","o","n">>) THEN "repRegion"
    ELSE IF includes(toLowerCase(h), <<"q","u","o","t","a"," ","s","t","a","r","t">>) THEN "quotaStartDate"
    ELSE IF \/ includes(toLowerCase(h), <<"s","i","n","g","l","e","/","d","u","a","l">>)
            \/ includes(toLowerCase(h), <<"d","u","a","l"," ","m","e","t","r","i","c">>) THEN "dualMetric"
    ELSE "none"

\* result.field ?? default: the last column assigned to the field
namedCol(hdr, field, default) ==
    LET S == {c \in 0..(Len(hdr) - 1) :
                 hdr[c + 1] # NullVal /\ namedFieldOf(trim(hdr[c + 1].v)) = field}
    IN  IF S = {} THEN default ELSE CHOOSE c \in S : \A d \in S : d <= c

detectQuotaColumns(hdr) ==
    LET none == [m \in {} |-> 0]
        cols == monthColsLoop(hdr, 0, [comp1Y1 |-> none, comp1Y2Y3 |-> none,
                                       comp2Y1 |-> none, comp2Y2Y3 |-> none])
        orDefault(found, m, d) == IF m \in DOMAIN found THEN found[m] ELSE d
        orNull(found) ==
            IF DOMAIN found = {} THEN NullQuotas
            ELSE [m \in {MONTHS[i] : i \in 1..12} |-> orDefault(found, m, -1)]
    IN  [submissionMonth |-> namedCol(hdr, "submissionMonth", 0),
         eid             |-> namedCol(hdr, "eid", 1),
         name            |-> namedCol(hdr, "name", 2),
         level           |-> namedCol(hdr, "level", 3),
         repRegion       |-> namedCol(hdr, "repRegion", 9),
         quotaStartDate  |-> namedCol(hdr, "quotaStartDate", 11),
         dualMetric      |-> namedCol(hdr, "dualMetric", -1),
         y1        |-> [m \in {MONTHS[i] : i \in 1..12} |->
                           orDefault(cols.comp1Y1, m, MONTH_DEFAULTS_LSS[m])],
         y2y3      |-> orNull(cols.comp1Y2Y3),
         comp2Y1   |-> orNull(cols.comp2Y1),
         comp2Y2Y3 |-> orNull(cols.comp2Y2Y3)]

(***************************************************************************)
(* SpecSchema: detectQuotaColumns applied to a header row of up to MaxCols *)
(* cells.                                                                  *)
(***************************************************************************)
InitSchema ==
    LET HeaderCells ==
            {NullVal, Str(<<"J","A","N">>), Str(<<" ","J","A","N"," ">>),
             Str(<<"C","o","m","p","1",":"," ","Y","1"," ","-"," ","J","A","N">>),
             Str(<<"C","o","m","p","1",":"," ","Y","2"," ","&"," ","Y","3"," ","-"," ","J","A","N">>),
             Str(<<"C","o","m","p","2",":"," ","Y","1"," ","-"," ","J","A","N">>),
             Str(<<"C","o","m","p","2",":"," ","Y","1"," ","-"," ","F","E","B">>),
             Str(<<"c","o","m","p","2",":"," ","y","2"," ","&"," ","y","3"," ","-"," ","j","a","n">>),
             Str(<<"Y","2","\n","F","E","B">>),
             Str(<<"E","I","D">>)}
    IN  /\ header \in SeqsUpTo(HeaderCells, MaxCols)
        /\ allRecords = <<>>
        /\ lmsRecords = <<>>
        /\ refRecords = <<>>
        /\ selectedMonth = <<>>
        /\ selectedRegion = "APAC"
        /\ pc = "idle"
        /\ op = "none"
        /\ out = NoResult
        /\ tab = "none"
        /\ submissionMonths = <<>>
        /\ results = NoResult
        /\ isRunning = FALSE
        /\ error = <<>>
        /\ timers = <<>>

\* parseQuotaFile's call of detectQuotaColumns on the header row of a sheet
DetectQuotaColumns ==
    /\ pc = "idle"
    /\ out' = detectQuotaColumns(header)
    /\ op' = "detectQuotaColumns"
    /\ pc' = "done"
    /\ UNCHANGED <<Inputs, header, tabVars>>

SpecSchema == InitSchema /\ [][DetectQuotaColumns]_vars

(***************************************************************************)
(* Claims about the schema mapper (SpecSchema).                            *)
(***************************************************************************)
Mapped == pc = "done" /\ op = "detectQuotaColumns"
MonthKeys == {"JUL", "AUG", "SEP", "OCT", "NOV", "DEC",
              "JAN", "FEB", "MAR", "APR", "MAY", "JUN"}
\* the columns (from 0) whose header cell is classified into bucket b and names month m
ColumnsOf(b, m) ==
    {c \in 0..(Len(header) - 1) :
        /\ header[c + 1] # NullVal
        /\ bucketOf(trim(header[c + 1].v)) = b
        /\ endsWithMonth(trim(header[c + 1].v), m)}
Lowest(S) == CHOOSE c \in S : \A d \in S : c <= d
LegacyDefault ==
    [JUL |-> 23, AUG |-> 24, SEP |-> 25, OCT |-> 26, NOV |-> 27, DEC |-> 28,
     JAN |-> 29, FEB |-> 30, MAR |-> 31, APR |-> 32, MAY |-> 33, JUN |-> 34]
\* the result field of each bucket that may be absent
OptionalBuckets ==
    {<<"comp1Y2Y3", "y2y3">>, <<"comp2Y1", "comp2Y1">>, <<"comp2Y2Y3", "comp2Y2Y3">>}
Absent(field) == "null" \in DOMAIN out[field]

\* C23: per bucket and month the mapped column is the lowest-index header cell
\* of that bucket naming the month; a primary/Y1 month without a column maps to
\* its legacy default; each other bucket is present iff it has a month column.
ThmC23_SchemaMapper ==
    Mapped =>
        /\ \A m \in MonthKeys :
              out.y1[m] = IF ColumnsOf("comp1Y1", m) # {}
                          THEN Lowest(ColumnsOf("comp1Y1", m))
                          ELSE LegacyDefault[m]
        /\ \A bf \in OptionalBuckets :
              /\ Absent(bf[2]) <=> (\A m \in MonthKeys : ColumnsOf(bf[1], m) = {})
              /\ ~Absent(bf[2]) =>
                    \A m \in MonthKeys :
                       ColumnsOf(bf[1], m) # {} =>
                          out[bf[2]][m] = Lowest(ColumnsOf(bf[1], m))

\* two primary JAN columns and one Y2&Y3 column: the first JAN column is mapped,
\* FEB falls back to its default, Y2&Y3 is present and the secondary buckets absent
WitC23_DuplicateJanColumns ==
    /\ Mapped
    /\ header = <<Str(<<"C","o","m","p","1",":"," ","Y","2"," ","&"," ","Y","3"," ","-"," ","J","A","N">>),
                  Str(<<"J","A","N">>), Str(<<" ","J","A","N"," ">>)>>
    /\ out.y1["JAN"] = 1
    /\ out.y1["FEB"] = 30
    /\ ~Absent("y2y3") /\ out.y2y3["JAN"] = 0
    /\ Absent("comp2Y1") /\ Absent("comp2Y2Y3")

(***************************************************************************)
(* The three tabs (App, LmsOverlayTab, LmsValidationTab) as one component: *)
(* they hold the same state and differ in the records they keep, the       *)
(* period options and the validator their deferred callback calls.  A      *)
(* click on Run schedules the callback with setTimeout; the callback runs  *)
(* later with the values the handler closed over.  Callbacks with the same *)
(* delay run in the order they were scheduled.                             *)
(***************************************************************************)
MaxTimers == 2

\* generateLmsProcessingMonths with the clock at the year and month of now
generateLmsProcessingMonths(now) ==
    LET months ==
            IF now.month >= 7
            THEN [i \in 1..(now.month - 6) |-> [year |-> now.year, month |-> i + 6]]
            ELSE [i \in 1..6 |-> [year |-> now.year - 1, month |-> i + 6]]
                 \o [i \in 1..now.month |-> [year |-> now.year, month |-> i]]
    IN  [i \in 1..Len(months) |-> lmsMonthLabel(months[i])]

\* useMemo(() => generateLmsProcessingMonths(), []), the tab mounted in February 2026
processingMonths == generateLmsProcessingMonths(Feb2026)

\* the records the tab validates: lmsRecords in the LMS tab, quotaRecords in the others
heldRecords == IF tab = "LmsValidationTab" THEN lmsRecords ELSE allRecords

\* the validator the tab's deferred callback calls
validate(t, records, refs, label, selRegion) ==
    IF t = "App" THEN runValidation(records, refs, label, selRegion)
    ELSE IF t = "LmsOverlayTab" THEN runOverlayValidation(records, refs, label, selRegion)
    ELSE runLmsValidation(records, refs, label, selRegion)

InitTab ==
    /\ tab \in {"App", "LmsOverlayTab", "LmsValidationTab"}
    /\ allRecords = <<>>
    /\ lmsRecords = <<>>
    /\ refRecords = <<>>
    /\ submissionMonths = <<>>
    /\ selectedMonth = IF tab = "LmsValidationTab"
                       THEN processingMonths[Len(processingMonths)] ELSE <<>>
    /\ selectedRegion = "APAC"
    /\ results = NoResult
    /\ isRunning = FALSE
    /\ error = <<>>
    /\ timers = <<>>
    /\ header = <<>>
    /\ pc = "idle"
    /\ op = "none"
    /\ out = NoResult

engineVars == <<header, pc, op, out>>

\* handleQuotaFile of App and LmsOverlayTab: a file that parses (ParsedQuotaFile:
\* the records and the labels of their submission dates in order), or one that throws
handleQuotaFile ==
    LET Files ==
            {[records |-> <<QuotaRec(7, E1, <<>>, Jan2026, Jan2026, FullQuotas),
                            QuotaRec(8, E1, <<>>, Jan2026, Feb2026, FullQuotas)>>,
              submissionMonths |-> <<formatSubmissionMonth(Jan2026),
                                     formatSubmissionMonth(Feb2026)>>],
             \* a submission date in the year 5 gets the label Jan-5
             [records |-> <<QuotaRec(7, E1, <<>>, Jan2026, [year |-> 5, month |-> 1],
                                     FullQuotas)>>,
              submissionMonths |-> <<formatSubmissionMonth([year |-> 5, month |-> 1])>>]}
    IN  /\ tab \in {"App", "LmsOverlayTab"}
        /\ \/ \E parsed \in Files :
                 /\ error' = <<>>
                 /\ allRecords' = parsed.records
                 /\ submissionMonths' = parsed.submissionMonths
                 /\ selectedMonth' =
                       IF Len(parsed.submissionMonths) > 0
                       THEN parsed.submissionMonths[Len(parsed.submissionMonths)]
                       ELSE selectedMonth
                 /\ results' = NoResult
           \/ /\ error' = <<"Failed to parse Quota file: ", "not a workbook">>
              /\ UNCHANGED <<allRecords, submissionMonths, selectedMonth, results>>
        /\ UNCHANGED <<lmsRecords, refRecords, selectedRegion, tab, isRunning, timers,
                       engineVars>>

\* handleLmsQuotaFile of LmsValidationTab
handleLmsQuotaFile ==
    LET Files ==
            {<<LmsRec(2, e, <<"S","A">>, "Non-SA", <<"S","e","m","i">>, Jan2026,
                      EmptyLms, EmptyLms)>> : e \in {E1, E2}}
    IN  /\ tab = "LmsValidationTab"
        /\ \/ \E records \in Files :
                 /\ error' = <<>>
                 /\ lmsRecords' = records
                 /\ results' = NoResult
           \/ /\ error' = <<"Failed to parse LMS Quota file: ", "not a workbook">>
              /\ UNCHANGED <<lmsRecords, results>>
        /\ UNCHANGED <<allRecords, refRecords, submissionMonths, selectedMonth,
                       selectedRegion, tab, isRunning, timers, engineVars>>

\* handleRefFile of the three tabs
handleRefFile ==
    /\ tab # "none"
    /\ \/ \E country \in {"Japan", "Germany"} :
             /\ error' = <<>>
             /\ refRecords' = <<RefRec(E1, "Yes", NULL, country)>>
             /\ results' = NoResult
       \/ /\ error' = <<"Failed to parse Reference file: ", "not a workbook">>
          /\ UNCHANGED <<refRecords, results>>
    /\ UNCHANGED <<allRecords, lmsRecords, submissionMonths, selectedMonth, selectedRegion,
                   tab, isRunning, timers, engineVars>>

\* onMonthChange: one of the options of the select (the last two of the LMS tab's)
setSelectedMonth ==
    /\ tab # "none"
    /\ \E m \in IF tab = "LmsValidationTab"
                THEN {processingMonths[i] :
                         i \in (Len(processingMonths) - 1)..Len(processingMonths)}
                ELSE {submissionMonths[i] : i \in 1..Len(submissionMonths)} :
          selectedMonth' = m
    /\ UNCHANGED <<allRecords, lmsRecords, refRecords, submissionMonths, selectedRegion,
                   tab, results, isRunning, error, timers, engineVars>>

\* onRegionChange: one of the region buttons
setSelectedRegion ==
    /\ tab # "none"
    /\ \E r \in {"APAC", "EMEAL"} : selectedRegion' = r
    /\ UNCHANGED <<allRecords, lmsRecords, refRecords, submissionMonths, selectedMonth,
                   tab, results, isRunning, error, timers, engineVars>>

\* a click on the Run button (disabled while !canRun || isRunning): handleRunValidation
\* up to its setTimeout call
handleRunValidation ==
    /\ tab # "none"
    /\ ~isRunning
    /\ Len(heldRecords) > 0 /\ Len(refRecords) > 0 /\ Len(selectedMonth) > 0
    /\ Len(timers) < MaxTimers
    /\ isRunning' = TRUE
    /\ error' = <<>>
    /\ timers' = Append(timers, [records |-> heldRecords, refRecords |-> refRecords,
                                 selectedMonth |-> selectedMonth,
                                 selectedRegion |-> selectedRegion])
    /\ UNCHANGED <<Inputs, submissionMonths, tab, results, engineVars>>

\* the deferred callback of handleRunValidation: try / catch / finally
timerCallback ==
    /\ timers # <<>>
    /\ \E t \in {Head(timers)} :
          \E res \in {validate(tab, t.records, t.refRecords, t.selectedMonth,
                               t.selectedRegion)} :
             IF "error" \in DOMAIN res
             THEN /\ error' = <<"Validation error: ">> \o res.error
                  /\ results' = results
             ELSE /\ results' = res
                  /\ error' = error
    /\ isRunning' = FALSE
    /\ timers' = Tail(timers)
    /\ UNCHANGED <<Inputs, submissionMonths, tab, engineVars>>

\* handleReset: every state back to its initial value; a scheduled callback stays scheduled
handleReset ==
    /\ tab # "none"
    /\ allRecords' = <<>>
    /\ lmsRecords' = <<>>
    /\ refRecords' = <<>>
    /\ submissionMonths' = <<>>
    /\ selectedMonth' = IF tab = "LmsValidationTab"
                        THEN processingMonths[Len(processingMonths)] ELSE <<>>
    /\ selectedRegion' = "APAC"
    /\ results' = NoResult
    /\ isRunning' = FALSE
    /\ error' = <<>>
    /\ UNCHANGED <<tab, timers, engineVars>>

NextTab ==
    \/ handleQuotaFile
    \/ handleLmsQuotaFile
    \/ handleRefFile
    \/ setSelectedMonth
    \/ setSelectedRegion
    \/ handleRunValidation
    \/ timerCallback
    \/ handleReset

SpecTab == InitTab /\ [][NextTab]_vars

(***************************************************************************)
(* Claims about the tabs (SpecTab).                                        *)
(***************************************************************************)
\* a run is pending: its deferred callback is scheduled and has not run
RunPending == timers # <<>>
ResultsShown == results # NoResult
\* the periods the tab can offer and the regions
AnyPeriod ==
    {processingMonths[i] : i \in 1..Len(processingMonths)}
    \cup {submissionMonths[i] : i \in 1..Len(submissionMonths)}
\* the validation of the records and roster the tab holds, for period m and region r
ValidationOfHeld(m, r) ==
    IF tab = "App" THEN runValidation(allRecords, refRecords, m, r)
    ELSE IF tab = "LmsOverlayTab" THEN runOverlayValidation(allRecords, refRecords, m, r)
    ELSE runLmsValidation(lmsRecords, refRecords, m, r)
HoldsBothFiles ==
    /\ refRecords # <<>>
    /\ IF tab = "LmsValidationTab" THEN lmsRecords # <<>> ELSE allRecords # <<>>

\* C24: once a run has been started no second run starts before the first has
\* resolved: there are never two pending runs.
CexC24_NeverTwoPendingRuns == Len(timers) <= 1

\* Run, Reset, both files uploaded again, Run: two callbacks are scheduled
WitC24_SecondRunAfterReset ==
    /\ Len(timers) = 2
    /\ isRunning
    /\ timers[1].records = timers[2].records

\* C25: after a Reset or a re-upload no result computed from the discarded
\* records is visible: results shown are the validation of the records and the
\* roster the tab holds now (for some period and region), and none is shown
\* while a file is missing.
CexC25_NoResultOfDiscardedRecords ==
    ResultsShown =>
        /\ HoldsBothFiles
        /\ \E m \in AnyPeriod, r \in REGIONS : results = ValidationOfHeld(m, r)

\* after a Reset with a run pending, the callback shows results of the records
\* that were discarded
WitC25_ResultsAfterReset ==
    /\ ResultsShown
    /\ ~RunPending
    /\ allRecords = <<>> /\ lmsRecords = <<>> /\ refRecords = <<>>
    /\ Len(results.v1) = 1

\* C26: results are destroyed when a new run starts: while a run is pending and
\* after a run that ended in an error no earlier run's results are displayed.
CexC26_ResultsDestroyedByNewRun ==
    /\ (isRunning /\ RunPending) => ~ResultsShown
    /\ (error # <<>> /\ error[1] = "Validation error: ") => ~ResultsShown

\* a second run is pending with the first run's results still displayed
WitC26_OldResultsWhilePending ==
    /\ isRunning /\ Len(timers) = 1
    /\ ResultsShown
    /\ HoldsBothFiles
    /\ results = ValidationOfHeld(timers[1].selectedMonth, timers[1].selectedRegion)

\* C27: whenever results are displayed and no run is pending they are the
\* validation of the held records and roster for the selected period and region.
CexC27_ResultsOfCurrentSelection ==
    (ResultsShown /\ ~RunPending /\ ~isRunning) =>
        /\ HoldsBothFiles
        /\ results = ValidationOfHeld(selectedMonth, selectedRegion)

\* results of Feb-26 stay displayed after the period was changed to Jan-26
WitC27_OtherPeriodDisplayed ==
    /\ ResultsShown /\ ~RunPending /\ ~isRunning
    /\ tab = "App"
    /\ HoldsBothFiles
    /\ selectedMonth = LabelJan26
    /\ Len(results.v1) = 1
    /\ results.v1[1].record.submissionMonth = Feb2026

(***************************************************************************)
(* SpecScope: the three runs on files of several records, some of another  *)
(* period, some of another region, some sharing an identifier.             *)
(***************************************************************************)
InitScope ==
    LET Hints  == {<<"A","P","A","C">>, <<"E","M","E","A">>}
        Months == {Jan2026, Feb2026}
        Roster == {RefRec(E2, "Yes", NULL, "Japan"), RefRec(E1, "Yes", NULL, "Japan"),
                   RefRec(E1, "Yes", "Yes", "Japan"), RefRec(E1, "Yes", NULL, "Germany")}
        \* the rows at odd positions have an empty January cell
        Quotas(i) == IF i % 2 = 1 THEN [FullQuotas EXCEPT !["JAN"] = NullVal]
                     ELSE FullQuotas
        \* the rows at odd positions hold a January amount
        Rev1(i) == IF i % 2 = 1 THEN Rev1With({1}) ELSE Rev1With({})
    IN  /\ \E n \in 1..MaxRecs :
              \E e \in [1..n -> {E1, TBH1}], h \in [1..n -> Hints], sm \in [1..n -> Months] :
                 /\ allRecords = [i \in 1..n |->
                                     QuotaRec(i + 1, e[i], h[i], Jan2026, sm[i], Quotas(i))]
                 /\ lmsRecords = [i \in 1..n |->
                                     LmsRec(i + 1, e[i], h[i], "Non-SA", <<"S","e","m","i">>,
                                            sm[i], Rev1(i), Rev1With({}))]
        /\ \E r \in Roster : refRecords = <<r>>
        /\ selectedMonth = LabelJan26
        /\ selectedRegion = "APAC"
        /\ pc = "idle"
        /\ op = "none"
        /\ out = NoResult
        /\ EngineOnly

SpecScope == InitScope /\ [][NextV1]_vars

(***************************************************************************)
(* Claims about the scope of a run and its summary (SpecScope).            *)
(***************************************************************************)
RanOverlay == Ran /\ op = "runOverlayValidation"
\* record i of the quota file belongs to the selected period (Jan-26)
PeriodMatching(i) == allRecords[i].submissionMonth = Jan2026
\* resolveRegion excludes record i of the quota file
Excluded(i) ==
    ~resolveRegion(allRecords[i], refRecords, getCountriesForRegion(selectedRegion),
                   selectedRegion).included
\* record i of the quota file appears in a result of some check
InSomeResult(i) ==
    \/ \E k \in 1..Len(out.v1) : out.v1[k].record = allRecords[i]
    \/ \E k \in 1..Len(out.v2) :
          \E j \in 1..Len(out.v2[k].occurrences) : out.v2[k].occurrences[j] = allRecords[i]
    \/ \E k \in 1..Len(out.v3) : out.v3[k].record = allRecords[i]
\* the period-matching, region-included occurrences of eid
IncludedOccurrences(eid) ==
    {i \in 1..Len(allRecords) :
        PeriodMatching(i) /\ ~Excluded(i) /\ allRecords[i].eid = eid}

\* C28: in the overlay run a record excluded by resolveRegion is in no result of
\* any check and the count of records is that of the included records of the
\* period; the occurrences of a duplicate group are all region-included, and an
\* identifier with fewer than two included occurrences has no group.
ThmC28_ExcludedInNoResult ==
    RanOverlay =>
        /\ \A i \in 1..Len(allRecords) : Excluded(i) => ~InSomeResult(i)
        /\ out.summary.totalRecords
              = Cardinality({i \in 1..Len(allRecords) : PeriodMatching(i) /\ ~Excluded(i)})
        /\ \A k \in 1..Len(out.v2) :
              /\ SeqElems(out.v2[k].occurrences)
                    = {allRecords[i] : i \in IncludedOccurrences(out.v2[k].eid)}
              /\ Len(out.v2[k].occurrences) > 1
        /\ \A eid \in {E1, TBH1} :
              Cardinality(IncludedOccurrences(eid)) < 2 => GroupsOf(eid) = {}

\* E1 is absent from the roster and occurs twice in the period, once with the hint
\* of the selected region and once with that of another: no duplicate group
WitC28_OneOfTwoExcluded ==
    /\ RanOverlay
    /\ \E i, j \in 1..Len(allRecords) :
          /\ i # j
          /\ allRecords[i].eid = E1 /\ allRecords[j].eid = E1
          /\ PeriodMatching(i) /\ PeriodMatching(j)
          /\ Excluded(i) /\ ~Excluded(j)
          /\ Cardinality({l \in 1..Len(allRecords) :
                             PeriodMatching(l) /\ allRecords[l].eid = E1}) = 2
    /\ out.v2 = <<>>
    /\ out.summary.v2DuplicateEids = 0

\* the scope of the run that was made: the quota records of the selected period
\* (base run), those of them that resolveRegion includes (overlay run), the LMS
\* records, which carry no period, that the region filter keeps (LMS run)
LmsIncluded(rec) ==
    \/ IsPlaceholderId(rec.employeeId)
    \/ IF RosterIdx(rec.employeeId) # {} THEN RosterMatches(rec.employeeId)
       ELSE AlwaysKeptGeo(rec.geo) \/ GeoRegion(rec.geo) = selectedRegion
InScope ==
    IF op = "runValidation"
    THEN SelectSeq(allRecords, LAMBDA rec : rec.submissionMonth = Jan2026)
    ELSE IF op = "runOverlayValidation"
    THEN SelectSeq(allRecords, LAMBDA rec :
             /\ rec.submissionMonth = Jan2026
             /\ resolveRegion(rec, refRecords, getCountriesForRegion(selectedRegion),
                              selectedRegion).included)
    ELSE SelectSeq(lmsRecords, LmsIncluded)
StatusCount(status) == Cardinality({k \in 1..Len(out.v1) : out.v1[k].status = status})

\* C29: in each of the three runs the Check 1 results are those of the in-scope
\* records, one each, in input order; v1Pass + v1Fail + v1Skip = totalRecords =
\* number of Check 1 results, each being the count of its status; the two other
\* counts are the lengths of the Check 2 and Check 3 result sequences.
ThmC29_SummaryPartition ==
    Ran =>
        /\ Len(out.v1) = Len(InScope)
        /\ \A k \in 1..Len(out.v1) : out.v1[k].record = InScope[k]
        /\ out.summary.v1Pass = StatusCount("pass")
        /\ out.summary.v1Fail = StatusCount("fail")
        /\ out.summary.v1Skip = StatusCount("skip")
        /\ out.summary.v1Pass + out.summary.v1Fail + out.summary.v1Skip
              = out.summary.totalRecords
        /\ out.summary.totalRecords = Len(out.v1)
        /\ IF op = "runLmsValidation"
           THEN /\ out.summary.v2AlignmentIssues = Len(out.v2)
                /\ out.summary.v3OnLeaveWithQuota = Len(out.v3)
           ELSE /\ out.summary.v2DuplicateEids = Len(out.v2)
                /\ out.summary.v3MissingQuota = Len(out.v3)

\* an overlay run on three records of which one is out of scope, the two others
\* passing Check 1, sharing their identifier and one of them missing an amount
WitC29_TwoPassesOneGroup ==
    /\ RanOverlay
    /\ Len(allRecords) = 3
    /\ Len(InScope) = 2
    /\ out.summary.v1Pass = 2
    /\ out.summary.totalRecords = 2
    /\ out.summary.v2DuplicateEids = 1
    /\ out.summary.v3MissingQuota = 1

====
